---- MODULE Spec2Model ----
(***************************************************************************)
(* Model of scripts/build_ky_results_json.py: the county canonicalizer,    *)
(* the office filter and classifier, the party bucketizer, the per-row     *)
(* aggregation loop, the finalize loop and the write of the result tree.   *)
(*                                                                         *)
(* Python str values are TLA+ strings; a character is a string of length   *)
(* one.  A pandas NaN cell is the reserved cell value NaN.  A float that   *)
(* round(x, 2) returned is kept as the integer number of hundredths.       *)
(***************************************************************************)
EXTENDS Integers, Sequences, FiniteSets, TLC

\* ------------------------------------------------------------------ bounds
MaxRows == 3

\* ------------------------------------------------------- Python str helpers
UpperLetters == "ABCDEFGHIJKLMNOPQRSTUVWXYZ"
LowerLetters == "abcdefghijklmnopqrstuvwxyz"
DigitChars == "0123456789"

CharAt(s, i) == SubSeq(s, i, i)

\* position of character c in alphabet, 0 when absent
IndexIn(c, alphabet) ==
    IF \E i \in 1..Len(alphabet) : CharAt(alphabet, i) = c
    THEN CHOOSE i \in 1..Len(alphabet) : CharAt(alphabet, i) = c
    ELSE 0

UpperSet == {CharAt(UpperLetters, n) : n \in 1..26}
LowerSet == {CharAt(LowerLetters, n) : n \in 1..26}
DigitSet == {CharAt(DigitChars, n) : n \in 1..10}
ToUpperMap == [c \in LowerSet |-> CharAt(UpperLetters, IndexIn(c, LowerLetters))]
ToLowerMap == [c \in UpperSet |-> CharAt(LowerLetters, IndexIn(c, UpperLetters))]

IsUpper(c) == c \in UpperSet
IsLower(c) == c \in LowerSet
IsAlpha(c) == IsUpper(c) \/ IsLower(c)
IsDigit(c) == c \in DigitSet
IsSpace(c) == c \in {" ", "\t", "\n", "\r"}

CharUpper(c) == IF IsLower(c) THEN ToUpperMap[c] ELSE c
CharLower(c) == IF IsUpper(c) THEN ToLowerMap[c] ELSE c

RECURSIVE StrUpper(_)
StrUpper(s) == IF s = "" THEN "" ELSE CharUpper(Head(s)) \o StrUpper(Tail(s))

RECURSIVE StrLower(_)
StrLower(s) == IF s = "" THEN "" ELSE CharLower(Head(s)) \o StrLower(Tail(s))

RECURSIVE LStrip(_)
LStrip(s) == IF s # "" /\ IsSpace(Head(s)) THEN LStrip(Tail(s)) ELSE s

RECURSIVE RStrip(_)
RStrip(s) ==
    IF s # "" /\ IsSpace(CharAt(s, Len(s))) THEN RStrip(SubSeq(s, 1, Len(s) - 1)) ELSE s

Strip(s) == RStrip(LStrip(s))

\* Python "sub in s"
Contains(s, sub) ==
    \E i \in 1..(Len(s) - Len(sub) + 1) : SubSeq(s, i, i + Len(sub) - 1) = sub

EndsWith(s, suffix) ==
    Len(s) >= Len(suffix) /\ SubSeq(s, Len(s) - Len(suffix) + 1, Len(s)) = suffix

\* str.title(): a letter that follows a letter is lower-cased, any other
\* letter is upper-cased
RECURSIVE TitleFrom(_, _)
TitleFrom(s, prevAlpha) ==
    IF s = "" THEN ""
    ELSE LET c == Head(s)
         IN (IF prevAlpha THEN CharLower(c) ELSE CharUpper(c))
            \o TitleFrom(Tail(s), IsAlpha(c))

Title(s) == TitleFrom(s, FALSE)

\* str(n) of a non-negative int
RECURSIVE DigitsOf(_)
DigitsOf(n) ==
    IF n < 10 THEN CharAt(DigitChars, n + 1)
    ELSE DigitsOf(n \div 10) \o CharAt(DigitChars, (n % 10) + 1)

IntToStr(n) == IF n < 0 THEN "-" \o DigitsOf(-n) ELSE DigitsOf(n)

\* a pandas missing cell; str(NaN) is "nan"
NaN == "<NaN>"
Str(cell) == IF cell = NaN THEN "nan" ELSE cell

\* ------------------------------------------------- normalize_county_key
\* re.sub(r"[^A-Za-z0-9 .-]", "", ...)
RECURSIVE KeepCountyChars(_)
KeepCountyChars(s) ==
    IF s = "" THEN ""
    ELSE LET c == Head(s)
         IN (IF IsAlpha(c) \/ IsDigit(c) \/ c \in {" ", ".", "-"} THEN c ELSE "")
            \o KeepCountyChars(Tail(s))

\* re.sub(r"\s+", " ", ...)
RECURSIVE CollapseSpaces(_)
CollapseSpaces(s) ==
    IF s = "" THEN ""
    ELSE IF IsSpace(Head(s))
         THEN " " \o CollapseSpaces(LStrip(s))
         ELSE Head(s) \o CollapseSpaces(Tail(s))

normalize_county_key(text) ==
    Strip(CollapseSpaces(KeepCountyChars(IF text = "" THEN "" ELSE Str(text))))

\* re.sub(r"\s+COUNTY$", "", key)
StripCountySuffix(key) ==
    IF EndsWith(key, "COUNTY")
       /\ Len(key) > 6
       /\ IsSpace(CharAt(key, Len(key) - 6))
    THEN RStrip(SubSeq(key, 1, Len(key) - 6))
    ELSE key

\* --------------------------------------------------- load_county_lookup
\* Rows of data/county_name_lookup.csv (county_name, county_namelsad,
\* match_key_normalized), an excerpt of the 120 rows in file order.
county_name_lookup ==
    << [county_name |-> "Breckinridge", county_namelsad |-> "Breckinridge County",
        match_key_normalized |-> "BRECKINRIDGE"],
       [county_name |-> "Butler", county_namelsad |-> "Butler County",
        match_key_normalized |-> "BUTLER"],
       [county_name |-> "Hardin", county_namelsad |-> "Hardin County",
        match_key_normalized |-> "HARDIN"],
       [county_name |-> "Jefferson", county_namelsad |-> "Jefferson County",
        match_key_normalized |-> "JEFFERSON"] >>

\* Rows of the same table for the counties whose default 4-letter
\* abbreviations collide or differ from the ones the TXT headers use.
county_name_lookup_txt ==
    << [county_name |-> "Greenup", county_namelsad |-> "Greenup County",
        match_key_normalized |-> "GREENUP"],
       [county_name |-> "Hardin", county_namelsad |-> "Hardin County",
        match_key_normalized |-> "HARDIN"],
       [county_name |-> "McCracken", county_namelsad |-> "McCracken County",
        match_key_normalized |-> "MCCRACKEN"],
       [county_name |-> "McCreary", county_namelsad |-> "McCreary County",
        match_key_normalized |-> "MCCREARY"] >>

\* the closed canonical county set of the reference table
CanonicalCounties == {county_name_lookup[i].county_name : i \in DOMAIN county_name_lookup}

\* dict.update / item assignment: later entries overwrite earlier ones
DictUpdate(d, e) == [k \in DOMAIN d \cup DOMAIN e |-> IF k \in DOMAIN e THEN e[k] ELSE d[k]]
\* dict.setdefault(k, v) used as an insert
DictSetDefault(d, k, v) == IF k \in DOMAIN d THEN d ELSE DictUpdate(d, [x \in {k} |-> v])
EmptyDict == [k \in {} |-> ""]

\* re.sub(r"[^A-Z]", "", s)
RECURSIVE KeepUpper(_)
KeepUpper(s) ==
    IF s = "" THEN ""
    ELSE (IF IsUpper(Head(s)) THEN Head(s) ELSE "") \o KeepUpper(Tail(s))

\* keys registered for one row of the table (the set "keys" plus the
\* no-suffix form), empty keys left out
RowKeys(row) ==
    { normalize_county_key(Strip(row.county_name)),
      normalize_county_key(row.county_namelsad),
      normalize_county_key(row.match_key_normalized),
      StripCountySuffix(normalize_county_key(Strip(row.county_name))) } \ {""}

RECURSIVE LoadNormalizedMap(_, _)
LoadNormalizedMap(rows, m) ==
    IF rows = <<>> THEN m
    ELSE LET row == Head(rows)
             county_name == Strip(row.county_name)
         IN IF county_name = "" THEN LoadNormalizedMap(Tail(rows), m)
            ELSE LoadNormalizedMap(Tail(rows),
                     DictUpdate(m, [k \in RowKeys(row) |-> county_name]))

RECURSIVE LoadAbbrMap(_, _)
LoadAbbrMap(rows, m) ==
    IF rows = <<>> THEN m
    ELSE LET county_name == Strip(Head(rows).county_name)
             alpha == KeepUpper(StrUpper(county_name))
         IN IF county_name # "" /\ Len(alpha) >= 4
            THEN LoadAbbrMap(Tail(rows),
                     DictSetDefault(m, SubSeq(alpha, 1, 4), Title(county_name)))
            ELSE LoadAbbrMap(Tail(rows), m)

\* known SOS/TXT abbreviation quirks
AbbrQuirks ==
    [k \in {"GREU", "KENT", "MASO", "MCCK", "MCCR", "MCLE"} |->
        CASE k = "GREU" -> "Greenup"
          [] k = "KENT" -> "Kenton"
          [] k = "MASO" -> "Mason"
          [] k = "MCCK" -> "McCracken"
          [] k = "MCCR" -> "McCreary"
          [] k = "MCLE" -> "McLean"]

\* known spelling variants seen in legacy files
SpellingVariants ==
    [k \in {normalize_county_key("Breckenridge"), normalize_county_key("Bulter")} |->
        IF k = normalize_county_key("Breckenridge") THEN "Breckinridge" ELSE "Butler"]

required_cols == {"county_name", "county_namelsad", "match_key_normalized"}

\* the pair returned by load_county_lookup(path) for the rows df of a table
\* that exists and has the required columns
load_county_lookup(df) ==
    [normalized_map |-> DictUpdate(LoadNormalizedMap(df, EmptyDict), SpellingVariants),
     abbr_map       |-> DictUpdate(LoadAbbrMap(df, EmptyDict), AbbrQuirks)]

\* ------------------------------------------------------------------- state
VARIABLES
    county_lookup_file,     \* <<>> when the path does not exist, else <<table>>
    COUNTY_NORMALIZED_MAP,  \* module-level dict: normalized key -> county name
    COUNTY_ABBR_MAP,        \* module-level dict: 4-letter abbreviation -> name
    csv_files,        \* the sorted CSV files: name, header, rows of cells
    txt_files,        \* the historical TXT files that exist: name, lines
    all_dataframes,   \* the frames collected by the file loops
    combined_df,      \* the concatenated and cleaned frame
    results_by_year,  \* <<str(year), office, contest_key, county>> -> result
    key_order,        \* the keys of results_by_year in order of first insertion
    output,           \* <<>> until the JSON file is written, then <<document>>
    previous_output,  \* the document an earlier run of the script wrote, if any
    pc,               \* position in the script
    pos                 \* index of the loop the script is in

\* the files the companion scripts of the repository read and write
VARIABLES
    election_json,    \* data/ky_election_results.json as the rename scripts
                      \* see it: <<year, office, contest>> -> county entries
    rename_pc,        \* which of the two rename scripts runs next
    county_csv_2022,  \* data/20221108__ky__general__county.csv: <<>> when the
                      \* file does not exist, else <<rows>>
    senate_df,        \* the rows extracted from the certified PDF
    senate_merges,    \* how often merge_into_county_csv has run
    COUNTY_LOOKUP,    \* module-level dict of convert_pdf_to_openelections.py
    recap_pdfs,       \* data/2022_recaps/*.pdf in list_pdfs order: parsed rows
    chunk_dir,        \* data/2022_recaps_chunks: chunk file name -> rows
    precinct_files,   \* the precinct CSV files of one year directory
    county_file       \* data/openelections/KY_<year>_GENERAL_COUNTY.csv

rename_vars == <<election_json, rename_pc>>
senate_vars == <<senate_df, senate_merges>>
chunk_vars == <<COUNTY_LOOKUP, recap_pdfs, chunk_dir>>
precinct_vars == <<precinct_files, county_file>>

\* the state of the companion scripts
aux_vars == <<rename_vars, senate_vars, county_csv_2022, chunk_vars, precinct_vars>>

vars == <<county_lookup_file, COUNTY_NORMALIZED_MAP, COUNTY_ABBR_MAP, csv_files, txt_files,
          all_dataframes, combined_df,
          results_by_year, key_order, output, previous_output, pc, pos, aux_vars>>

\* ---------------------------------------------- canonicalize_county_name
\* the body of the function, the module-level dict it reads made explicit
canonicalize_with(normalized_map, raw_county) ==
    LET key == normalize_county_key(raw_county)
        no_suffix == StripCountySuffix(key)
    IN IF key = "" THEN ""
       ELSE IF key \in DOMAIN normalized_map THEN normalized_map[key]
       ELSE IF no_suffix \in DOMAIN normalized_map THEN normalized_map[no_suffix]
       ELSE Strip(Str(raw_county))

canonicalize_county_name(raw_county) ==
    canonicalize_with(COUNTY_NORMALIZED_MAP, raw_county)

\* ------------------------------------------------------------ party_bucket
\* the bucketizer that compares the party without trimming it
party_bucket_untrimmed(party) ==
    IF party = NaN THEN "other"
    ELSE LET p == StrUpper(party)
         IN IF p \in {"DEM", "DEMOCRAT", "D"} THEN "dem"
            ELSE IF p \in {"REP", "REPUBLICAN", "R", "GOP"} THEN "rep"
            ELSE "other"

party_bucket(party) ==
    IF party = NaN THEN "other"
    ELSE LET p == StrUpper(Strip(party))
         IN IF p \in {"DEM", "DEMOCRAT", "D"} THEN "dem"
            ELSE IF p \in {"REP", "REPUBLICAN", "R", "GOP"} THEN "rep"
            ELSE "other"

\* ----------------------------------------------------- get_competitiveness
CategoryColors ==
    [Annihilation |-> [REP |-> "#67000d", DEM |-> "#08306b"],
     Dominant     |-> [REP |-> "#a50f15", DEM |-> "#08519c"],
     Stronghold   |-> [REP |-> "#cb181d", DEM |-> "#3182bd"],
     Safe         |-> [REP |-> "#ef3b2c", DEM |-> "#6baed6"],
     Likely       |-> [REP |-> "#fb6a4a", DEM |-> "#9ecae1"],
     Lean         |-> [REP |-> "#fcae91", DEM |-> "#c6dbef"],
     Tilt         |-> [REP |-> "#fee8c8", DEM |-> "#e1f5fe"],
     Tossup       |-> [REP |-> "#f7f7f7", DEM |-> "#f7f7f7"]]

code_parts ==
    [Annihilation |-> "ANNIHILATION", Dominant |-> "DOMINANT",
     Stronghold |-> "STRONGHOLD", Safe |-> "SAFE", Likely |-> "LIKELY",
     Lean |-> "LEAN", Tilt |-> "TILT", Tossup |-> "TOSSUP"]

\* the chain with every >= written as > : a value on a threshold falls in
\* the lower band
CategoryOfStrict(pct100) ==
    IF pct100 > 4000 THEN "Annihilation"
    ELSE IF pct100 > 3000 THEN "Dominant"
    ELSE IF pct100 > 2000 THEN "Stronghold"
    ELSE IF pct100 > 1000 THEN "Safe"
    ELSE IF pct100 > 550 THEN "Likely"
    ELSE IF pct100 > 100 THEN "Lean"
    ELSE IF pct100 > 50 THEN "Tilt"
    ELSE "Tossup"

\* the chain with the labels of the Safe and Likely branches exchanged
CategoryOfSwapped(pct100) ==
    IF pct100 >= 4000 THEN "Annihilation"
    ELSE IF pct100 >= 3000 THEN "Dominant"
    ELSE IF pct100 >= 2000 THEN "Stronghold"
    ELSE IF pct100 >= 1000 THEN "Likely"
    ELSE IF pct100 >= 550 THEN "Safe"
    ELSE IF pct100 >= 100 THEN "Lean"
    ELSE IF pct100 >= 50 THEN "Tilt"
    ELSE "Tossup"

\* the if/elif chain over margin_pct; pct100 is margin_pct in hundredths
CategoryOf(pct100) ==
    IF pct100 >= 4000 THEN "Annihilation"
    ELSE IF pct100 >= 3000 THEN "Dominant"
    ELSE IF pct100 >= 2000 THEN "Stronghold"
    ELSE IF pct100 >= 1000 THEN "Safe"
    ELSE IF pct100 >= 550 THEN "Likely"
    ELSE IF pct100 >= 100 THEN "Lean"
    ELSE IF pct100 >= 50 THEN "Tilt"
    ELSE "Tossup"

\* the record with the code built from the category name as it is
get_competitiveness_raw_code(pct100, winner_party) ==
    LET category == CategoryOf(pct100)
    IN [category |-> category,
        party    |-> winner_party,
        code     |-> winner_party \o "_" \o category,
        color    |-> CategoryColors[category][winner_party]]

get_competitiveness(pct100, winner_party) ==
    LET category == CategoryOf(pct100)
    IN [category |-> category,
        party    |-> winner_party,
        code     |-> winner_party \o "_" \o code_parts[category],
        color    |-> CategoryColors[category][winner_party]]

\* -------------------------------------------------------- get_contest_name
\* the chain whose governor branch does not look for "lieutenant"
get_contest_name_plain_governor(office) ==
    LET office_lower == StrLower(Strip(office))
    IN IF Contains(office_lower, "president") THEN "President"
       ELSE IF Contains(office_lower, "senate") THEN "U.S. Senate"
       ELSE IF Contains(office_lower, "governor") THEN "Governor"
       ELSE IF Contains(office_lower, "attorney") THEN "Attorney General"
       ELSE IF Contains(office_lower, "secretary") THEN "Secretary of State"
       ELSE IF Contains(office_lower, "treasurer") THEN "State Treasurer"
       ELSE IF Contains(office_lower, "auditor") THEN "Auditor of Public Accounts"
       ELSE IF Contains(office_lower, "agriculture") \/ Contains(office_lower, "commissioner")
            THEN "Commissioner of Agriculture"
       ELSE office

get_contest_name(office) ==
    LET office_lower == StrLower(Strip(office))
    IN IF Contains(office_lower, "president") THEN "President"
       ELSE IF Contains(office_lower, "senate") THEN "U.S. Senate"
       ELSE IF Contains(office_lower, "governor")
            THEN (IF Contains(office_lower, "lieutenant")
                  THEN "Lieutenant Governor" ELSE "Governor")
       ELSE IF Contains(office_lower, "attorney") THEN "Attorney General"
       ELSE IF Contains(office_lower, "secretary") THEN "Secretary of State"
       ELSE IF Contains(office_lower, "treasurer") THEN "State Treasurer"
       ELSE IF Contains(office_lower, "auditor") THEN "Auditor of Public Accounts"
       ELSE IF Contains(office_lower, "agriculture") \/ Contains(office_lower, "commissioner")
            THEN "Commissioner of Agriculture"
       ELSE office

\* ----------------------------------------------------- is_statewide_office
STATEWIDE_OFFICES ==
    { "president",
      "u.s. senate", "united states senate", "us senate",
      "u.s. senator", "united states senator", "us senator",
      "governor", "lieutenant governor", "attorney general",
      "secretary of state", "state treasurer", "treasurer",
      "auditor of public accounts", "state auditor",
      "commissioner of agriculture" }

is_statewide_office(office) ==
    LET text == StrLower(Strip(office))
    IN \E token \in STATEWIDE_OFFICES : Contains(text, token)

\* ------------------------------------------------------------ votes coercion
\* str.replace(c, "")
RECURSIVE RemoveChar(_, _)
RemoveChar(s, c) ==
    IF s = "" THEN ""
    ELSE (IF Head(s) = c THEN "" ELSE Head(s)) \o RemoveChar(Tail(s), c)

IsDigits(s) == s # "" /\ \A n \in 1..Len(s) : IsDigit(CharAt(s, n))

RECURSIVE ParseDigits(_)
ParseDigits(s) ==
    IF s = "" THEN 0
    ELSE 10 * ParseDigits(SubSeq(s, 1, Len(s) - 1)) + (IndexIn(CharAt(s, Len(s)), DigitChars) - 1)

\* the parts of a decimal literal [+-]digits[.digits]
Unsigned(s) == IF s # "" /\ Head(s) \in {"+", "-"} THEN Tail(s) ELSE s
DotAt(s) == IndexIn(".", s)
IntPart(s) == IF DotAt(s) = 0 THEN s ELSE SubSeq(s, 1, DotAt(s) - 1)
FracPart(s) == IF DotAt(s) = 0 THEN "" ELSE SubSeq(s, DotAt(s) + 1, Len(s))

\* pd.to_numeric(..., errors="coerce") is a number (not NaN) for this cell
IsNumeric(s) ==
    /\ IsDigits(IntPart(Unsigned(s)))
    /\ (DotAt(Unsigned(s)) = 0 \/ FracPart(Unsigned(s)) = "" \/ IsDigits(FracPart(Unsigned(s))))

\* the number cast by .astype(int): the fraction is truncated toward zero
NumericInt(s) ==
    LET v == ParseDigits(IntPart(Unsigned(s)))
    IN IF Head(s) = "-" THEN 0 - v ELSE v

\* combined_df["votes"]: commas removed, to_numeric, fillna(0), astype(int)
CoerceVotes(cell) ==
    LET text == RemoveChar(Str(cell), ",")
    IN IF IsNumeric(text) THEN NumericInt(text) ELSE 0

SeqsUpTo(S, n) == UNION {[1..k -> S] : k \in 0..n}

\* the sum of a sequence of numbers
RECURSIVE SumSeq(_)
SumSeq(ns) == IF ns = <<>> THEN 0 ELSE Head(ns) + SumSeq(Tail(ns))

RECURSIVE Flatten(_)
Flatten(frames) == IF frames = <<>> THEN <<>> ELSE Head(frames) \o Flatten(Tail(frames))

\* the nested dicts year -> office -> contest iterate in order of first
\* insertion at each level
RECURSIVE GroupOrder(_, _)
GroupOrder(keys, level) ==
    IF keys = <<>> THEN <<>>
    ELSE LET h == keys[1][level]
             same == SelectSeq(keys, LAMBDA k : k[level] = h)
             rest == SelectSeq(keys, LAMBDA k : k[level] # h)
         IN (IF level < 3 THEN GroupOrder(same, level + 1) ELSE same)
            \o GroupOrder(rest, level)

NestedOrder(keys) == GroupOrder(keys, 1)

\* ----------------------------------------------------- parse CSV files loop
required == {"year", "county", "office", "district", "candidate", "party", "votes"}

\* df.columns = [col.lower().strip() for col in df.columns]
HeaderColumns(csv_file) == {Strip(StrLower(col)) : col \in csv_file.columns}

\* one iteration of "for csv_file in csv_files": a file that lacks a required
\* column is skipped; else party goes through party_bucket and the frame is
\* appended.
ParseCsvRow(row) == [row EXCEPT !.party = party_bucket(row.party)]

ParseCsv ==
    /\ pc = "parse_csv"
    /\ IF pos <= Len(csv_files)
       THEN /\ all_dataframes' =
                  IF required \ HeaderColumns(csv_files[pos]) # {}
                  THEN all_dataframes
                  ELSE Append(all_dataframes,
                          [n \in 1..Len(csv_files[pos].rows) |->
                              ParseCsvRow(csv_files[pos].rows[n])])
            /\ pos' = pos + 1
            /\ pc' = pc
       ELSE /\ pc' = "parse_txt"
            /\ pos' = 1
            /\ UNCHANGED all_dataframes
    /\ UNCHANGED <<aux_vars, txt_files, county_lookup_file, COUNTY_NORMALIZED_MAP, COUNTY_ABBR_MAP, csv_files, combined_df, results_by_year, key_order, output, previous_output>>

\* ------------------------------------------------------------- guess_party
dem_names ==
    {"gore", "lieberman", "weinberg", "mondale", "ferraro", "dukakis",
     "bentsen", "clinton", "kerry", "edwards", "obama", "biden",
     "harris", "waltz", "robinson", "combs", "grimes", "adkins",
     "chandler", "owen", "maple", "stumbo", "luallen", "miller", "baesler",
     "beshear", "mongiardo", "hendrickson", "conway", "hollenbach", "williams",
     "lunsford"}

rep_names ==
    {"bush", "cheney", "dole", "kemp", "reagan", "quayle", "mccain",
     "palin", "romney", "ryan", "trump", "pence", "mcconnell", "nolan",
     "williams", "forgy", "bunning",
     "fletcher", "grayson", "wood", "greenwell", "koenig", "farmer",
     "rudolph", "lee", "wheeler"}

\* the dem loop runs to its end before the rep loop starts
guess_party(candidate) ==
    LET name_lower == StrLower(candidate)
    IN IF \E dem \in dem_names : Contains(name_lower, dem) THEN "DEM"
       ELSE IF \E rep \in rep_names : Contains(name_lower, rep) THEN "REP"
       ELSE "OTHER"

\* ---------------------------------------------------------- parse_txt_file
\* str.count(c)
RECURSIVE Count(_, _)
Count(s, c) ==
    IF s = "" THEN 0 ELSE (IF Head(s) = c THEN 1 ELSE 0) + Count(Tail(s), c)

\* the length of the run of non-blank characters s starts with
RECURSIVE WordLen(_)
WordLen(s) == IF s = "" \/ IsSpace(Head(s)) THEN 0 ELSE 1 + WordLen(Tail(s))

\* str.split()
RECURSIVE Split(_)
Split(s) ==
    LET t == LStrip(s)
    IN IF t = "" THEN <<>>
       ELSE <<SubSeq(t, 1, WordLen(t))>> \o Split(SubSeq(t, WordLen(t) + 1, Len(t)))

\* " ".join(parts)
RECURSIVE Join(_)
Join(parts) ==
    IF parts = <<>> THEN ""
    ELSE IF Len(parts) = 1 THEN parts[1]
    ELSE parts[1] \o " " \o Join(Tail(parts))

\* position of the first occurrence of sub in s, 0 when absent
FindSub(s, sub) ==
    LET at == {i \in 1..(Len(s) - Len(sub) + 1) : SubSeq(s, i, i + Len(sub) - 1) = sub}
    IN IF at = {} THEN 0 ELSE CHOOSE i \in at : \A j \in at : i <= j

\* the year read off the file name; 0 when the name carries none
TxtYear(name) ==
    LET filename_full == StrLower(name)
        filename == IF EndsWith(filename_full, ".txt")
                    THEN SubSeq(filename_full, 1, Len(filename_full) - 4)
                    ELSE filename_full
    IN IF Contains(filename, "00gen") \/ Contains(filename_full, "2000") THEN 2000
       ELSE IF Contains(filename_full, "2002") THEN 2002
       ELSE IF Contains(filename_full, "2003") THEN 2003
       ELSE IF Contains(filename_full, "2004") THEN 2004
       ELSE IF Contains(filename_full, "2006") THEN 2006
       ELSE IF Contains(filename_full, "2007") THEN 2007
       ELSE IF Contains(filename_full, "2008") \/ Contains(filename_full, "08") THEN 2008
       ELSE 0

\* the length of the run of characters of [A-Z0-9/] s starts with
RECURSIVE CodeLen(_)
CodeLen(s) ==
    IF s # "" /\ (IsUpper(Head(s)) \/ IsDigit(Head(s)) \/ Head(s) = "/")
    THEN 1 + CodeLen(Tail(s)) ELSE 0

\* re.search(r'OFFICE:\s+[A-Z0-9/]+\s+(.*)', line) on a line with one
\* "OFFICE:": <<group(1).strip()>>, or <<>> when the pattern does not match
OfficeMatch(line) ==
    LET at == FindSub(line, "OFFICE:")
        rest == SubSeq(line, at + 7, Len(line))
        code == LStrip(rest)
        tail == SubSeq(code, CodeLen(code) + 1, Len(code))
        name == LStrip(tail)
    IN IF at = 0 \/ Len(code) = Len(rest) \/ CodeLen(code) = 0 \/ Len(name) = Len(tail)
       THEN <<>>
       ELSE <<Strip(name)>>

\* the office name runs on to the next line: that line is not blank, does not
\* start with an upper-case letter and holds no "*"
Continues(lines, i) ==
    /\ i + 1 <= Len(lines)
    /\ Strip(lines[i + 1]) # ""
    /\ ~IsUpper(Head(Strip(lines[i + 1])))
    /\ ~Contains(lines[i + 1], "*")

\* current_office after the line: replaced when the line has a matching
\* "OFFICE:"
OfficeAfter(lines, i, current_office) ==
    IF Contains(lines[i], "OFFICE:") /\ OfficeMatch(lines[i]) # <<>>
    THEN OfficeMatch(lines[i])[1]
            \o (IF Continues(lines, i) THEN " " \o Strip(lines[i + 1]) ELSE "")
    ELSE current_office

\* re.sub(r"[^A-Z0-9]", "", s)
RECURSIVE KeepUpperDigits(_)
KeepUpperDigits(s) ==
    IF s = "" THEN ""
    ELSE (IF IsUpper(Head(s)) \/ IsDigit(Head(s)) THEN Head(s) ELSE "")
         \o KeepUpperDigits(Tail(s))

\* the county a header token *ABBR is filed under: the entry of
\* COUNTY_ABBR_MAP, else the abbreviation itself, title-cased on the way in
\* and once more when appended to county_order
HeaderCounty(p) ==
    LET abbr == KeepUpperDigits(StrUpper(Tail(p)))
        county_name == IF abbr \in DOMAIN COUNTY_ABBR_MAP
                       THEN COUNTY_ABBR_MAP[abbr] ELSE Title(abbr)
    IN Title(county_name)

\* a county header line: not blank and at least three "*"
IsCountyHeader(line) == Strip(line) # "" /\ Count(line, "*") >= 3

\* county_order after the line: emptied by a matching "OFFICE:", rebuilt by a
\* county header from its tokens that start with "*"
CountyOrderAfter(line, county_order) ==
    LET cleared == IF Contains(line, "OFFICE:") /\ OfficeMatch(line) # <<>>
                   THEN <<>> ELSE county_order
        stars == SelectSeq(Split(line), LAMBDA p : Head(p) = "*")
    IN IF IsCountyHeader(line)
       THEN [n \in 1..Len(stars) |-> HeaderCounty(stars[n])]
       ELSE cleared

\* int(v.replace(',', '')) succeeds: digits with an optional sign
IsIntLiteral(v) == IsDigits(Unsigned(RemoveChar(v, ",")))
IntLiteral(v) ==
    LET text == RemoveChar(v, ",")
    IN IF Head(text) = "-" THEN 0 - ParseDigits(Unsigned(text))
       ELSE ParseDigits(Unsigned(text))

\* the rows one line adds: its last len(county_order) tokens are all
\* integers, the tokens before them name a candidate of more than one
\* character, and a county gets a row when its count is positive and its
\* canonical name is not empty
VoteRowsOf(line, year, current_office, county_order) ==
    LET parts == Split(line)
        width == Len(county_order)
        vote_nums == SubSeq(parts, Len(parts) - width + 1, Len(parts))
        candidate == Title(Strip(Join(SubSeq(parts, 1, Len(parts) - width))))
        cols == SelectSeq([n \in 1..width |-> n],
                          LAMBDA n : /\ IntLiteral(vote_nums[n]) > 0
                                     /\ canonicalize_county_name(county_order[n]) # "")
    IN IF /\ current_office # ""
          /\ county_order # <<>>
          /\ Strip(line) # ""
          /\ ~Contains(line, "OFFICE")
          /\ Len(parts) >= width
          /\ \A n \in 1..width : IsIntLiteral(vote_nums[n])
          /\ Len(candidate) > 1
       THEN [k \in 1..Len(cols) |->
               [year      |-> IntToStr(year),
                county    |-> canonicalize_county_name(county_order[cols[k]]),
                office    |-> current_office,
                district  |-> "",
                candidate |-> candidate,
                party     |-> guess_party(candidate),
                votes     |-> IntToStr(IntLiteral(vote_nums[cols[k]]))]]
       ELSE <<>>

\* "for i, line in enumerate(lines)" from line i on; current_office is ""
\* for None
RECURSIVE ParseTxtLines(_, _, _, _, _)
ParseTxtLines(lines, i, year, current_office, county_order) ==
    IF i > Len(lines) THEN <<>>
    ELSE LET office == OfficeAfter(lines, i, current_office)
             order == CountyOrderAfter(lines[i], county_order)
         IN VoteRowsOf(lines[i], year, office, order)
            \o ParseTxtLines(lines, i + 1, year, office, order)

\* the frame of one TXT file: empty when its name carries no year
parse_txt_file(filepath) ==
    IF TxtYear(filepath.name) = 0 THEN <<>>
    ELSE ParseTxtLines(filepath.lines, 1, TxtYear(filepath.name), "", <<>>)

\* one iteration of "for txt_file in txt_files": the frame is appended
\* unless it is empty
ParseTxt ==
    /\ pc = "parse_txt"
    /\ IF pos <= Len(txt_files)
       THEN /\ all_dataframes' =
                  IF parse_txt_file(txt_files[pos]) = <<>>
                  THEN all_dataframes
                  ELSE Append(all_dataframes, parse_txt_file(txt_files[pos]))
            /\ pos' = pos + 1
            /\ pc' = pc
       ELSE /\ pc' = "combine"
            /\ pos' = 1
            /\ UNCHANGED all_dataframes
    /\ UNCHANGED <<aux_vars, txt_files, county_lookup_file, COUNTY_NORMALIZED_MAP, COUNTY_ABBR_MAP, csv_files, combined_df, results_by_year, key_order, output, previous_output>>

\* ------------------------------------------------------- combine all data
\* county canonicalized, rows with an empty county dropped, votes coerced,
\* rows whose year is not numeric dropped
CleanRow(row) ==
    [year      |-> NumericInt(Str(row.year)),
     county    |-> canonicalize_county_name(row.county),
     office    |-> row.office,
     district  |-> row.district,
     candidate |-> row.candidate,
     party     |-> row.party,
     votes     |-> CoerceVotes(row.votes)]

KeepRow(row) ==
    /\ Strip(Str(canonicalize_county_name(row.county))) # ""
    /\ IsNumeric(Str(row.year))

RECURSIVE CleanRows(_)
CleanRows(rows) ==
    IF rows = <<>> THEN <<>>
    ELSE (IF KeepRow(Head(rows)) THEN <<CleanRow(Head(rows))>> ELSE <<>>)
         \o CleanRows(Tail(rows))

\* a canonicalizer that remembers its fallbacks: the normalized key of every
\* county cell it could not resolve is entered in the map with the text it
\* returned for it, so a later cell with that key gets the remembered text
RECURSIVE CacheFallbacks(_, _)
CacheFallbacks(rows, m) ==
    IF rows = <<>> THEN m
    ELSE LET raw == Head(rows).county
             key == normalize_county_key(raw)
         IN IF key = "" \/ key \in DOMAIN m \/ StripCountySuffix(key) \in DOMAIN m
            THEN CacheFallbacks(Tail(rows), m)
            ELSE CacheFallbacks(Tail(rows), DictSetDefault(m, key, Strip(Str(raw))))

CombineCaching ==
    /\ pc = "combine"
    /\ IF all_dataframes = <<>>
       THEN /\ pc' = "aborted"
            /\ UNCHANGED <<combined_df, COUNTY_NORMALIZED_MAP>>
       ELSE /\ combined_df' = CleanRows(Flatten(all_dataframes))
            /\ COUNTY_NORMALIZED_MAP' =
                  CacheFallbacks(Flatten(all_dataframes), COUNTY_NORMALIZED_MAP)
            /\ pc' = "aggregate"
    /\ pos' = 1
    /\ UNCHANGED <<aux_vars, txt_files, county_lookup_file, COUNTY_ABBR_MAP, csv_files, all_dataframes, results_by_year, key_order, output, previous_output>>

Combine ==
    /\ pc = "combine"
    /\ IF all_dataframes = <<>>
       THEN /\ pc' = "aborted"          \* raise SystemExit("No data files found!")
            /\ UNCHANGED combined_df
       ELSE /\ combined_df' = CleanRows(Flatten(all_dataframes))
            /\ pc' = "aggregate"
    /\ pos' = 1
    /\ UNCHANGED <<aux_vars, txt_files, county_lookup_file, COUNTY_NORMALIZED_MAP, COUNTY_ABBR_MAP, csv_files, all_dataframes, results_by_year, key_order, output, previous_output>>

\* --------------------------------------------------------- aggregation loop
skip_candidates == {"", "Over Votes", "Under Votes", "Total Votes"}

\* the locals of one iteration of "for _, row in combined_df.iterrows()"
RowOffice(row) == Strip(Str(row.office))
RowDistrict(row) == IF row.district # NaN THEN Strip(Str(row.district)) ELSE ""
RowCandidate(row) == Title(Strip(Str(row.candidate)))
RowParty(row) == Strip(Str(row.party))
RowCounty(row) == Strip(Str(row.county))

\* the row passes both "continue" filters
RowAccepted(row) ==
    /\ ~(RowCandidate(row) \in skip_candidates \/ RowParty(row) = "")
    /\ is_statewide_office(RowOffice(row))

ContestKey(row) ==
    IF RowDistrict(row) = "" THEN RowOffice(row)
    ELSE RowOffice(row) \o " - " \o RowDistrict(row)

\* the path year / office / contest / county of the row in the tree
RowKey(row) ==
    << IntToStr(row.year),
       IF RowOffice(row) = "" THEN "Unknown" ELSE RowOffice(row),
       ContestKey(row),
       RowCounty(row) >>

\* the default passed to contest["results"].setdefault
NewCountyResult(row) ==
    [contest_name    |-> get_contest_name(RowOffice(row)),
     year            |-> row.year,
     county          |-> RowCounty(row),
     dem_votes       |-> 0,
     rep_votes       |-> 0,
     other_votes     |-> 0,
     total_votes     |-> 0,
     two_party_total |-> 0,
     dem_candidate   |-> "",
     rep_candidate   |-> "",
     winner          |-> "",
     margin          |-> 0,
     margin_pct      |-> 0,
     competitiveness |-> EmptyDict,
     all_parties     |-> EmptyDict,
     dem_max         |-> <<>>,      \* the optional key "_dem_max"
     rep_max         |-> <<>>]      \* the optional key "_rep_max"

\* the running maximum read with a default below every vote count
GetOrMinus1(opt) == IF opt = <<>> THEN 0 - 1 ELSE opt[1]

\* dict.get(key, 0) of an optional key
GetOr0(opt) == IF opt = <<>> THEN 0 ELSE opt[1]

\* the update with total_votes added to in the dem and rep branches only
AddVotesTwoPartyTotal(r, bucket, candidate, votes) ==
    IF bucket = "dem"
    THEN [r EXCEPT !.dem_votes = @ + votes, !.total_votes = @ + votes,
                   !.dem_max = IF votes > GetOr0(r.dem_max) THEN <<votes>> ELSE @,
                   !.dem_candidate = IF votes > GetOr0(r.dem_max) THEN candidate ELSE @]
    ELSE IF bucket = "rep"
    THEN [r EXCEPT !.rep_votes = @ + votes, !.total_votes = @ + votes,
                   !.rep_max = IF votes > GetOr0(r.rep_max) THEN <<votes>> ELSE @,
                   !.rep_candidate = IF votes > GetOr0(r.rep_max) THEN candidate ELSE @]
    ELSE [r EXCEPT !.other_votes = @ + votes]

\* the update with the running maximum compared by >= : a later record with
\* equal votes takes the name
AddVotesLastSeen(r, bucket, candidate, votes) ==
    LET r1 == IF bucket = "dem"
              THEN LET r2 == [r EXCEPT !.dem_votes = @ + votes]
                   IN IF votes >= GetOr0(r.dem_max)
                      THEN [r2 EXCEPT !.dem_max = <<votes>>, !.dem_candidate = candidate]
                      ELSE r2
              ELSE IF bucket = "rep"
              THEN LET r2 == [r EXCEPT !.rep_votes = @ + votes]
                   IN IF votes >= GetOr0(r.rep_max)
                      THEN [r2 EXCEPT !.rep_max = <<votes>>, !.rep_candidate = candidate]
                      ELSE r2
              ELSE [r EXCEPT !.other_votes = @ + votes]
    IN [r1 EXCEPT !.total_votes = @ + votes]

\* the bucket update of one row on its county result
AddVotes(r, bucket, candidate, votes) ==
    LET r1 == IF bucket = "dem"
              THEN LET r2 == [r EXCEPT !.dem_votes = @ + votes]
                   IN IF votes > GetOr0(r.dem_max)
                      THEN [r2 EXCEPT !.dem_max = <<votes>>, !.dem_candidate = candidate]
                      ELSE r2
              ELSE IF bucket = "rep"
              THEN LET r2 == [r EXCEPT !.rep_votes = @ + votes]
                   IN IF votes > GetOr0(r.rep_max)
                      THEN [r2 EXCEPT !.rep_max = <<votes>>, !.rep_candidate = candidate]
                      ELSE r2
              ELSE [r EXCEPT !.other_votes = @ + votes]
    IN [r1 EXCEPT !.total_votes = @ + votes]

\* the aggregation loop with margin, winner and competitiveness computed on
\* every row instead of in a pass of their own
AggregateFinalizing ==
    /\ pc = "aggregate"
    /\ IF pos <= Len(combined_df)
       THEN LET row == combined_df[pos]
                key == RowKey(row)
                old == IF key \in DOMAIN results_by_year
                       THEN results_by_year[key] ELSE NewCountyResult(row)
                new == AddVotes(old, party_bucket(RowParty(row)), RowCandidate(row), row.votes)
                dem == new.dem_votes
                rep == new.rep_votes
                fin == [new EXCEPT !.margin = dem - rep,
                                   !.winner = IF dem > rep THEN "DEM"
                                              ELSE IF rep > dem THEN "REP" ELSE "TIE"]
            IN /\ IF RowAccepted(row)
                  THEN /\ results_by_year' = DictUpdate(results_by_year, [k \in {key} |-> fin])
                       /\ key_order' = IF key \in DOMAIN results_by_year
                                       THEN key_order ELSE Append(key_order, key)
                  ELSE UNCHANGED <<results_by_year, key_order>>
               /\ pos' = pos + 1
               /\ pc' = pc
       ELSE /\ pc' = "finalize"
            /\ pos' = 1
            /\ UNCHANGED <<results_by_year, key_order>>
    /\ UNCHANGED <<aux_vars, txt_files, county_lookup_file, COUNTY_NORMALIZED_MAP, COUNTY_ABBR_MAP, csv_files, all_dataframes, combined_df, output, previous_output>>

Aggregate ==
    /\ pc = "aggregate"
    /\ IF pos <= Len(combined_df)
       THEN LET row == combined_df[pos]
                key == RowKey(row)
                old == IF key \in DOMAIN results_by_year
                       THEN results_by_year[key] ELSE NewCountyResult(row)
                new == AddVotes(old, party_bucket(RowParty(row)), RowCandidate(row), row.votes)
            IN /\ IF RowAccepted(row)
                  THEN /\ results_by_year' = DictUpdate(results_by_year, [k \in {key} |-> new])
                       /\ key_order' = IF key \in DOMAIN results_by_year
                                       THEN key_order ELSE Append(key_order, key)
                  ELSE UNCHANGED <<results_by_year, key_order>>
               /\ pos' = pos + 1
               /\ pc' = pc
       ELSE /\ pc' = "finalize"
            /\ pos' = 1
            /\ UNCHANGED <<results_by_year, key_order>>
    /\ UNCHANGED <<aux_vars, txt_files, county_lookup_file, COUNTY_NORMALIZED_MAP, COUNTY_ABBR_MAP, csv_files, all_dataframes, combined_df, output, previous_output>>

\* ------------------------------------------------------------ finalize loop
Abs(n) == IF n < 0 THEN 0 - n ELSE n

\* round(num / den, 0) for den > 0, num >= 0: to nearest, a tie to even
RoundHalfEven(num, den) ==
    LET q == num \div den
        r == num % den
    IN IF 2 * r > den THEN q + 1
       ELSE IF 2 * r = den THEN q + (q % 2)
       ELSE q

\* the percentage cut off after two decimals instead of rounded
MarginPctTruncated(margin, total) ==
    IF total = 0 THEN 0
    ELSE IF total > 0 THEN (Abs(margin) * 10000) \div total
    ELSE 0 - ((Abs(margin) * 10000) \div (0 - total))

\* round((abs(margin) / total) * 100, 2) if total else 0, in hundredths
MarginPct(margin, total) ==
    IF total = 0 THEN 0
    ELSE IF total > 0 THEN RoundHalfEven(Abs(margin) * 10000, total)
    ELSE 0 - RoundHalfEven(Abs(margin) * 10000, 0 - total)

AllParties(dem, rep, other) ==
    LET present == (IF dem > 0 THEN {"DEM"} ELSE {})
                   \cup (IF rep > 0 THEN {"REP"} ELSE {})
                   \cup (IF other > 0 THEN {"OTHER"} ELSE {})
    IN [k \in present |-> IF k = "DEM" THEN dem ELSE IF k = "REP" THEN rep ELSE other]

TieCompetitiveness ==
    [category |-> "Tossup", party |-> "TIE", code |-> "TIE_TOSSUP", color |-> "#f7f7f7"]

\* the winner with an even split given to the Democrat
WinnerTieToDem(dem, rep) == IF dem >= rep THEN "DEM" ELSE "REP"

\* the if/elif/else on dem and rep that sets data["winner"]
Winner(dem, rep) == IF dem > rep THEN "DEM" ELSE IF rep > dem THEN "REP" ELSE "TIE"

\* the body of the innermost finalize loop on one county result
FinalizeResult(data) ==
    LET dem == data.dem_votes
        rep == data.rep_votes
        other == data.other_votes
        total == data.total_votes
        margin == dem - rep
        margin_pct == MarginPct(margin, total)
    IN [data EXCEPT
          !.two_party_total = dem + rep,
          !.all_parties = AllParties(dem, rep, other),
          !.margin = margin,
          !.margin_pct = margin_pct,
          !.winner = Winner(dem, rep),
          !.competitiveness = IF Winner(dem, rep) = "TIE" THEN TieCompetitiveness
                              ELSE get_competitiveness(margin_pct, Winner(dem, rep)),
          !.dem_max = <<>>,
          !.rep_max = <<>>]

Finalize ==
    /\ pc = "finalize"
    /\ IF pos <= Len(key_order)
       THEN LET key == NestedOrder(key_order)[pos]
            IN /\ results_by_year' =
                     [results_by_year EXCEPT ![key] = FinalizeResult(results_by_year[key])]
               /\ pos' = pos + 1
               /\ pc' = pc
       ELSE /\ pc' = "write"
            /\ pos' = 1
            /\ UNCHANGED results_by_year
    /\ UNCHANGED <<aux_vars, txt_files, county_lookup_file, COUNTY_NORMALIZED_MAP, COUNTY_ABBR_MAP, csv_files, all_dataframes, combined_df, key_order, output, previous_output>>

\* ------------------------------------------------------------------- write
\* output_file.write_text(json.dumps({"results_by_year": ...}, indent=2)):
\* the document holds every result, in the iteration order of the dicts
Write ==
    /\ pc = "write"
    /\ output' = << [results_by_year |-> results_by_year,
                     key_order |-> NestedOrder(key_order)] >>
    /\ pc' = "done"
    /\ UNCHANGED <<aux_vars, txt_files, county_lookup_file, COUNTY_NORMALIZED_MAP, COUNTY_ABBR_MAP, csv_files, all_dataframes, combined_df, results_by_year, key_order, previous_output, pos>>

Next == ParseCsv \/ ParseTxt \/ Combine \/ Aggregate \/ Finalize \/ Write

\* ------------------------------------------------------ input file collection
\* the characters of the file names, in code order
PathChars == "-.0123456789ABCDEFGHIJKLMNOPQRSTUVWXYZ_abcdefghijklmnopqrstuvwxyz"

\* a < b for two strings, as Python compares them
RECURSIVE StrLess(_, _)
StrLess(a, b) ==
    IF b = "" THEN FALSE
    ELSE IF a = "" THEN TRUE
    ELSE IF Head(a) = Head(b) THEN StrLess(Tail(a), Tail(b))
    ELSE IndexIn(Head(a), PathChars) < IndexIn(Head(b), PathChars)

\* a < b for two tuples of strings of one length: the first position at
\* which they differ decides
RECURSIVE PathBefore(_, _)
PathBefore(a, b) ==
    IF a = <<>> THEN FALSE
    ELSE IF Head(a) = Head(b) THEN PathBefore(Tail(a), Tail(b))
    ELSE StrLess(Head(a), Head(b))

\* sorted(...) of a collection of files with distinct paths
RECURSIVE SortedByName(_)
SortedByName(S) ==
    IF S = {} THEN <<>>
    ELSE LET first == CHOOSE x \in S : \A y \in S \ {x} : StrLess(x.name, y.name)
         IN <<first>> \o SortedByName(S \ {first})

Reverse(seq) == [n \in 1..Len(seq) |-> seq[Len(seq) + 1 - n]]

\* the order in which a set of paths yields its elements: it follows the
\* hashes of the paths, which change with the hash seed of the process
HashSeeds == {"seed_a", "seed_b"}
SetOrder(S, seed) == IF seed = "seed_a" THEN SortedByName(S) ELSE Reverse(SortedByName(S))

\* list({...}) in place of sorted({...}): the files in the order of the set
collect_csv_files_unsorted(paths, seed) == SetOrder(paths, seed)

\* csv_files = sorted({p for pattern in csv_patterns for p in input_dir.glob(pattern)})
collect_csv_files(paths, seed) ==
    SortedByName({SetOrder(paths, seed)[n] : n \in 1..Len(SetOrder(paths, seed))})

\* the script is started once more on the same directory and lookup table: a
\* new process with its own hash seed, every module-level name bound afresh
Rerun ==
    /\ pc = "done"
    /\ previous_output = <<>>
    /\ previous_output' = output
    /\ \E seed \in HashSeeds :
          csv_files' = collect_csv_files({csv_files[n] : n \in 1..Len(csv_files)}, seed)
    /\ COUNTY_NORMALIZED_MAP' = load_county_lookup(county_lookup_file[1].rows).normalized_map
    /\ COUNTY_ABBR_MAP' = load_county_lookup(county_lookup_file[1].rows).abbr_map
    /\ all_dataframes' = <<>>
    /\ combined_df' = <<>>
    /\ results_by_year' = EmptyDict
    /\ key_order' = <<>>
    /\ output' = <<>>
    /\ pc' = "parse_csv"
    /\ pos' = 1
    /\ UNCHANGED <<aux_vars, txt_files, county_lookup_file>>

NextRerun == Next \/ Rerun

\* ============================================ src/clean_county_names.py
\* the main variables, left alone by the companion scripts
main_vars == <<county_lookup_file, COUNTY_NORMALIZED_MAP, COUNTY_ABBR_MAP, csv_files, txt_files,
               all_dataframes, combined_df, results_by_year, key_order, output,
               previous_output, pc, pos>>

COUNTY_MAPPING ==
    [k \in {"LARU", "MASO", "LIVI", "HARD", "OWEN", "LAWR", "GARR", "LEE", "HANC",
            "MCCK", "Breckenridge", "LINC", "Mclean", "MCLE", "GREU", "KENT",
            "MAGO", "Mccracken", "LETC", "MEAD", "ROBE", "NICH", "MCCR", "Bulter",
            "MENI", "ESTI", "EDMO", "HOPK", "METC", "HICK", "KNOT", "Mccreary",
            "MONR", "KNOX", "ELLI", "Allegany"} |->
        CASE k = "LARU" -> "Larue"        [] k = "MASO" -> "Mason"
          [] k = "LIVI" -> "Livingston"   [] k = "HARD" -> "Hardin"
          [] k = "OWEN" -> "Owen"         [] k = "LAWR" -> "Lawrence"
          [] k = "GARR" -> "Garrard"      [] k = "LEE" -> "Lee"
          [] k = "HANC" -> "Hancock"      [] k = "MCCK" -> "McCracken"
          [] k = "Breckenridge" -> "Breckenridge"
          [] k = "LINC" -> "Lincoln"      [] k = "Mclean" -> "McLean"
          [] k = "MCLE" -> "McLean"       [] k = "GREU" -> "Greenup"
          [] k = "KENT" -> "Kenton"       [] k = "MAGO" -> "Magoffin"
          [] k = "Mccracken" -> "McCracken"
          [] k = "LETC" -> "Letcher"      [] k = "MEAD" -> "Meade"
          [] k = "ROBE" -> "Robertson"    [] k = "NICH" -> "Nicholas"
          [] k = "MCCR" -> "McCracken"    [] k = "Bulter" -> "Butler"
          [] k = "MENI" -> "Menifee"      [] k = "ESTI" -> "Estill"
          [] k = "EDMO" -> "Edmonson"     [] k = "HOPK" -> "Hopkins"
          [] k = "METC" -> "Metcalfe"     [] k = "HICK" -> "Hickman"
          [] k = "KNOT" -> "Knott"        [] k = "Mccreary" -> "McCreary"
          [] k = "MONR" -> "Monroe"       [] k = "KNOX" -> "Knox"
          [] k = "ELLI" -> "Elliott"      [] k = "Allegany" -> "Allegany"]

\* contest["results"] is a dict in insertion order: a sequence of entries
\* [county, data] with distinct counties
ResultKeys(results) == [n \in 1..Len(results) |-> results[n].county]

\* results.pop(name): the data of the entry and the dict without it
ResultGet(results, name) ==
    results[CHOOSE n \in 1..Len(results) : results[n].county = name].data
ResultPop(results, name) == SelectSeq(results, LAMBDA entry : entry.county # name)

\* results[name] = data: an existing key keeps its place and takes the new
\* data, a new key goes to the end
ResultSet(results, name, data) ==
    IF \E n \in 1..Len(results) : results[n].county = name
    THEN [n \in 1..Len(results) |->
            IF results[n].county = name THEN [county |-> name, data |-> data]
            ELSE results[n]]
    ELSE Append(results, [county |-> name, data |-> data])

\* results[good_name] = results.pop(bad_name) for each name of bad_counties
RECURSIVE MoveBadCounties(_, _)
MoveBadCounties(results, bad_counties) ==
    IF bad_counties = <<>> THEN results
    ELSE LET bad_name == Head(bad_counties)
             good_name == COUNTY_MAPPING[bad_name]
             moved == ResultSet(ResultPop(results, bad_name), good_name,
                                ResultGet(results, bad_name))
         IN MoveBadCounties(moved, Tail(bad_counties))

\* the body of the contest loop of clean_county_names.py
CleanContest(results) ==
    MoveBadCounties(results,
        SelectSeq(ResultKeys(results), LAMBDA k : k \in DOMAIN COUNTY_MAPPING))

\* the script: load the JSON, rename in every contest, save
CleanCountyNames ==
    /\ rename_pc = "clean_county_names"
    /\ election_json' = [c \in DOMAIN election_json |-> CleanContest(election_json[c])]
    /\ rename_pc' = "fix_final_counties"
    /\ UNCHANGED <<main_vars, senate_vars, county_csv_2022, chunk_vars, precinct_vars>>

\* ============================================ src/fix_final_counties.py
\* the body of the contest loop: Breckenridge becomes Breckinridge, Allegany
\* is removed
FixContest(results) ==
    LET fixed == IF \E n \in 1..Len(results) : results[n].county = "Breckenridge"
                 THEN ResultSet(ResultPop(results, "Breckenridge"), "Breckinridge",
                                ResultGet(results, "Breckenridge"))
                 ELSE results
    IN ResultPop(fixed, "Allegany")

FixFinalCounties ==
    /\ rename_pc = "fix_final_counties"
    /\ election_json' = [c \in DOMAIN election_json |-> FixContest(election_json[c])]
    /\ rename_pc' = "done"
    /\ UNCHANGED <<main_vars, senate_vars, county_csv_2022, chunk_vars, precinct_vars>>

NextRename == CleanCountyNames \/ FixFinalCounties

\* ============== src/scripts/extract_2022_senate_from_certified_ocr.py
\* pd.to_numeric(merged["votes"], errors="coerce").fillna(0).astype(int),
\* written back as text by to_csv
NumericVotes(cell) == IF IsNumeric(Str(cell)) THEN NumericInt(Str(cell)) ELSE 0

\* mask_senate of a row of the file as read with dtype=str
mask_senate(row) ==
    /\ Strip(row.year) = "2022"
    /\ Contains(StrLower(row.office), "senator")

\* a merge that keeps every row of the file and adds the extracted ones
merge_appending(base_file, senate) ==
    LET base == IF base_file = <<>> THEN <<>> ELSE base_file[1]
        merged == base \o senate
    IN [n \in 1..Len(merged) |->
          [merged[n] EXCEPT !.votes = IntToStr(NumericVotes(merged[n].votes))]]

\* the rows merge_into_county_csv writes: the rows of the file outside the
\* mask, then the extracted rows, votes coerced to int.  The seven columns
\* from election_day on are blank in every extracted row and carried through
\* for the others; they are left out.
merge_into_county_csv(base_file, senate) ==
    LET base == IF base_file = <<>> THEN <<>> ELSE base_file[1]
        merged == SelectSeq(base, LAMBDA row : ~mask_senate(row)) \o senate
    IN [n \in 1..Len(merged) |->
          [merged[n] EXCEPT !.votes = IntToStr(NumericVotes(merged[n].votes))]]

MaxMerges == 2

\* one run of the script on the extracted rows
MergeSenate ==
    /\ senate_merges < MaxMerges
    /\ county_csv_2022' = <<merge_into_county_csv(county_csv_2022, senate_df)>>
    /\ senate_merges' = senate_merges + 1
    /\ UNCHANGED <<main_vars, rename_vars, senate_df, chunk_vars, precinct_vars>>

NextSenate == MergeSenate

\* ======== src/scripts/aggregate_openelections_precinct_to_county.py
\* the group key of a precinct row; the year is the argument of the call
PrecinctKey(row) == <<row.county, row.office, row.district, row.candidate, row.party>>

\* the keys of a set in ascending order, as groupby and sort_values leave them
RECURSIVE SortedKeys(_)
SortedKeys(S) ==
    IF S = {} THEN <<>>
    ELSE LET first == CHOOSE x \in S : \A y \in S \ {x} : PathBefore(x, y)
         IN <<first>> \o SortedKeys(S \ {first})

\* the rows of the files that have every required column; pd.read_csv with
\* dtype=str and fillna("") leaves every cell a string
precinct_required == {"county", "office", "district", "party", "candidate", "votes"}
UsableFrames(files) ==
    SelectSeq(files, LAMBDA file : precinct_required \ HeaderColumns(file) = {})

\* one output row per group, the groups in ascending key order; Total gives
\* the votes cell of a group from its rows, which to_csv writes as text
GroupRows(year, rows, Total(_)) ==
    LET keys == SortedKeys({PrecinctKey(rows[n]) : n \in 1..Len(rows)})
    IN [k \in 1..Len(keys) |->
          [year |-> year, county |-> keys[k][1], office |-> keys[k][2],
           district |-> keys[k][3], candidate |-> keys[k][4], party |-> keys[k][5],
           votes |-> Total(SelectSeq(rows, LAMBDA row : PrecinctKey(row) = keys[k]))]]

\* the votes column cleaned as in the build script, then summed
CleanedTotal(group) ==
    IntToStr(SumSeq([n \in 1..Len(group) |-> CoerceVotes(group[n].votes)]))

\* aggregate_year(year): <<>> when it raises (no precinct file, or none
\* with the required columns), else <<rows of the county file>>
aggregate_year(year, files) ==
    IF files = <<>> \/ UsableFrames(files) = <<>> THEN <<>>
    ELSE << GroupRows(year,
                      Flatten([n \in 1..Len(UsableFrames(files)) |-> UsableFrames(files)[n].rows]),
                      CleanedTotal) >>

\* main() for one year: the county file is written unless the call raised
AggregateYear ==
    /\ county_file = <<>>
    /\ aggregate_year("2010", precinct_files) # <<>>
    /\ county_file' = aggregate_year("2010", precinct_files)
    /\ UNCHANGED <<main_vars, rename_vars, senate_vars, county_csv_2022, chunk_vars, precinct_files>>

\* ============================== src/scripts/aggregate_general_years.py
\* pd.read_csv without dtype infers the type of the votes column of each
\* file: numbers when every cell that is not empty is an integer literal,
\* else text.  (A cell with a decimal point makes a column of floats; the
\* files considered have none.  Key cells are not numeric literals and stay
\* text.)
VotesAreNumbers(file) ==
    \A n \in 1..Len(file.rows) :
       file.rows[n].votes = "" \/ IsDigits(Unsigned(file.rows[n].votes))

\* the rows of a file, each marked with the type of its votes cell: "nan"
\* for an empty cell, else "int" or "str" after the column
TypedRows(file) ==
    [n \in 1..Len(file.rows) |->
        [row |-> file.rows[n],
         type |-> IF file.rows[n].votes = "" THEN "nan"
                  ELSE IF VotesAreNumbers(file) THEN "int" ELSE "str"]]

\* "".join of the votes cells of a group, in row order
RECURSIVE ConcatVotes(_)
ConcatVotes(group) ==
    IF group = <<>> THEN "" ELSE Head(group).votes \o ConcatVotes(Tail(group))

\* groupby(...)["votes"].sum() adds the cells of a group with +: numbers
\* are summed with empty cells skipped, strings are joined
GeneralTotal(group) ==
    IF \A n \in 1..Len(group) : group[n].votes = "" \/ IsDigits(Unsigned(group[n].votes))
    THEN IntToStr(SumSeq([n \in 1..Len(group) |->
                            IF group[n].votes = "" THEN 0 ELSE NumericInt(group[n].votes)]))
    ELSE ConcatVotes(group)

\* a group that holds strings next to numbers or empty cells cannot be
\* added up: the sum raises TypeError
MixedGroup(typed, key) ==
    LET types == {typed[n].type : n \in {m \in 1..Len(typed) : PrecinctKey(typed[m].row) = key}}
    IN "str" \in types /\ types # {"str"}

\* aggregate_year(year) of this script: <<>> when it returns early or
\* raises, else <<rows of the county file>>
general_aggregate_year(year, files) ==
    LET typed == Flatten([n \in 1..Len(files) |-> TypedRows(files[n])])
        rows == [n \in 1..Len(typed) |-> typed[n].row]
        columns == UNION {HeaderColumns(files[n]) : n \in 1..Len(files)}
    IN IF files = <<>> \/ precinct_required \ columns # {} THEN <<>>
       ELSE IF \E n \in 1..Len(typed) : MixedGroup(typed, PrecinctKey(typed[n].row))
            THEN <<>>
       ELSE << GroupRows(year, rows, GeneralTotal) >>

\* the loop body for one year of the list
AggregateGeneralYear ==
    /\ county_file = <<>>
    /\ general_aggregate_year("2010", precinct_files) # <<>>
    /\ county_file' = general_aggregate_year("2010", precinct_files)
    /\ UNCHANGED <<main_vars, rename_vars, senate_vars, county_csv_2022, chunk_vars, precinct_files>>

NextPrecinct == AggregateYear \/ AggregateGeneralYear

\* ======================= src/scripts/convert_pdf_to_openelections.py
\* normalize_county_key of this script: as in the build script, then upper()
recap_normalize_county_key(text) == StrUpper(normalize_county_key(text))

\* load_county_lookup() of this script over the rows of the reference table
RECURSIVE recap_load_county_lookup(_, _)
recap_load_county_lookup(rows, county_map) ==
    IF rows = <<>> THEN county_map
    ELSE LET row == Head(rows)
             canonical == Strip(row.county_name)
             keys == { recap_normalize_county_key(canonical),
                       recap_normalize_county_key(row.county_namelsad),
                       recap_normalize_county_key(row.match_key_normalized),
                       StripCountySuffix(recap_normalize_county_key(canonical)) } \ {""}
         IN IF canonical = "" THEN recap_load_county_lookup(Tail(rows), county_map)
            ELSE recap_load_county_lookup(Tail(rows),
                     DictUpdate(county_map, [k \in keys |-> canonical]))

\* canonicalize_county_name of this script: unknown names are title-cased
recap_canonicalize_county_name(raw_county) ==
    LET key == recap_normalize_county_key(raw_county)
        no_suffix == StripCountySuffix(key)
    IN IF key = "" THEN ""
       ELSE IF key \in DOMAIN COUNTY_LOOKUP THEN COUNTY_LOOKUP[key]
       ELSE IF no_suffix \in DOMAIN COUNTY_LOOKUP THEN COUNTY_LOOKUP[no_suffix]
       ELSE Title(Strip(Str(raw_county)))

infer_county_from_pdf_name(stem) ==
    recap_canonicalize_county_name(Strip(CollapseSpaces(stem)))

\* the votes of a group coerced to int and summed, written as text
NumericTotal(group) ==
    IntToStr(SumSeq([n \in 1..Len(group) |-> NumericVotes(group[n].votes)]))

\* parse_sos_precinct_recap_pdf from the point where the candidate lines
\* of the PDF have been read (pdf.entries: office, district, candidate,
\* party, votes): the county of the file name is attached and the precinct
\* totals are summed per key; an empty frame when no line was read
parse_sos_precinct_recap_pdf(pdf) ==
    IF pdf.entries = <<>> THEN <<>>
    ELSE GroupRows("2022",
                   [n \in 1..Len(pdf.entries) |->
                       [county |-> infer_county_from_pdf_name(pdf.stem),
                        office |-> pdf.entries[n].office,
                        district |-> pdf.entries[n].district,
                        candidate |-> pdf.entries[n].candidate,
                        party |-> pdf.entries[n].party,
                        votes |-> pdf.entries[n].votes]],
                   NumericTotal)

\* ======================= src/scripts/process_2022_recaps_in_chunks.py
\* df["county"].map(canonicalize_county_name)
CanonicalCountyRows(rows) ==
    [n \in 1..Len(rows) |->
        [rows[n] EXCEPT !.county = recap_canonicalize_county_name(rows[n].county)]]

\* f"{n:03d}"
Pad3(n) == IF n < 10 THEN "00" \o IntToStr(n)
           ELSE IF n < 100 THEN "0" \o IntToStr(n) ELSE IntToStr(n)

chunk_file(start, end) == "chunk_" \o Pad3(start) \o "_" \o Pad3(end) \o ".csv"

\* process_chunk(start, count): <<>> when it returns without writing, else
\* <<the chunk file it writes>>; start and end are kept next to the rows as
\* the file name carries them
process_chunk(pdfs, start, count) ==
    LET end == IF start + count < Len(pdfs) THEN start + count ELSE Len(pdfs)
        frames == [i \in 1..(end - start) |->
                      CanonicalCountyRows(parse_sos_precinct_recap_pdf(pdfs[start + i]))]
        rows == Flatten(frames)
    IN IF start >= Len(pdfs) \/ rows = <<>> THEN <<>>
       ELSE << [name |-> chunk_file(start, end), start |-> start, end |-> end,
                rows |-> GroupRows("2022", rows, NumericTotal)] >>

\* one run of the script with --start and --count
ProcessChunk ==
    \E start \in 0..Len(recap_pdfs), count \in 1..Len(recap_pdfs) :
       LET written == process_chunk(recap_pdfs, start, count)
       IN /\ written # <<>>
          /\ chunk_dir' = DictUpdate(chunk_dir, [k \in {written[1].name} |-> written[1]])
          /\ UNCHANGED <<main_vars, rename_vars, senate_vars, county_csv_2022,
                         COUNTY_LOOKUP, recap_pdfs, precinct_vars>>

\* sorted(CHUNK_DIR.glob("chunk_*.csv"))
RECURSIVE SortedStrings(_)
SortedStrings(S) ==
    IF S = {} THEN <<>>
    ELSE LET first == CHOOSE x \in S : \A y \in S \ {x} : StrLess(x, y)
         IN <<first>> \o SortedStrings(S \ {first})

\* the rows merge_chunks writes for a chunk directory that is not empty;
\* the seven blank columns are left out
merge_chunks(dir) ==
    LET chunk_files == SortedStrings(DOMAIN dir)
        merged == Flatten([n \in 1..Len(chunk_files) |-> dir[chunk_files[n]].rows])
    IN GroupRows("2022", CanonicalCountyRows(merged), NumericTotal)

\* one run of the script with --merge-only; SystemExit without chunk files
MergeChunks ==
    /\ chunk_dir # EmptyDict
    /\ county_csv_2022' = <<merge_chunks(chunk_dir)>>
    /\ UNCHANGED <<main_vars, rename_vars, senate_vars, chunk_vars, precinct_vars>>

NextChunks == ProcessChunk \/ MergeChunks

\* the companion scripts have not been run
RenameIdle == election_json = EmptyDict /\ rename_pc = "idle"
SenateIdle == senate_df = <<>> /\ senate_merges = 0
ChunkIdle == COUNTY_LOOKUP = EmptyDict /\ recap_pdfs = <<>> /\ chunk_dir = EmptyDict
PrecinctIdle == precinct_files = <<>> /\ county_file = <<>>

AuxIdle ==
    /\ RenameIdle
    /\ SenateIdle
    /\ county_csv_2022 = <<>>
    /\ ChunkIdle
    /\ PrecinctIdle

\* the build script is not run
MainIdle ==
    /\ county_lookup_file = <<>>
    /\ COUNTY_NORMALIZED_MAP = EmptyDict
    /\ COUNTY_ABBR_MAP = EmptyDict
    /\ csv_files = <<>>
    /\ txt_files = <<>>
    /\ all_dataframes = <<>>
    /\ combined_df = <<>>
    /\ results_by_year = EmptyDict
    /\ key_order = <<>>
    /\ output = <<>>
    /\ previous_output = <<>>
    /\ pc = "idle"
    /\ pos = 1

\* the lookup table on disk: complete, or absent or without its key column
LookupFile == << [columns |-> required_cols, rows |-> county_name_lookup] >>
BrokenLookupFiles ==
    { <<>>, << [columns |-> {"county_name", "county_namelsad"}, rows |-> <<>>] >> }

\* load_county_lookup raises FileNotFoundError when the path does not exist
\* and ValueError when a required column is missing
LookupLoads(file) == file # <<>> /\ required_cols \ file[1].columns = {}

\* the state after the module-level setup: files collected, the lookup dicts
\* bound by "COUNTY_NORMALIZED_MAP, COUNTY_ABBR_MAP = load_county_lookup(...)",
\* nothing read; the script has ended if that call raised
InitWithTxt(lookups, files, txts) ==
    /\ county_lookup_file \in lookups
    /\ COUNTY_NORMALIZED_MAP =
          IF LookupLoads(county_lookup_file)
          THEN load_county_lookup(county_lookup_file[1].rows).normalized_map ELSE EmptyDict
    /\ COUNTY_ABBR_MAP =
          IF LookupLoads(county_lookup_file)
          THEN load_county_lookup(county_lookup_file[1].rows).abbr_map ELSE EmptyDict
    /\ pc = IF LookupLoads(county_lookup_file) THEN "parse_csv" ELSE "aborted"
    /\ csv_files \in files
    /\ txt_files \in txts
    /\ all_dataframes = <<>>
    /\ combined_df = <<>>
    /\ results_by_year = EmptyDict
    /\ key_order = <<>>
    /\ output = <<>>
    /\ previous_output = <<>>
    /\ pos = 1
    /\ AuxIdle

\* the setup when input_dir holds none of the historical TXT files
InitWith(lookups, files) == InitWithTxt(lookups, files, {<<>>})

\* ------------------------------------------------------------------ inputs
Row(year, county, office, district, candidate, party, votes) ==
    [year |-> year, county |-> county, office |-> office, district |-> district,
     candidate |-> candidate, party |-> party, votes |-> votes]

\* a CSV file of input_dir with the header of the OpenElections exports
CsvFile(name, rows) ==
    [name |-> name,
     columns |-> {"county", "office", "district", "party", "candidate", "votes", "year"},
     rows |-> rows]

\* no CSV file at all, or one CSV file of at most MaxRows rows
FilesOver(rows) ==
    {<<>>} \cup {<<CsvFile("20201103__ky__general__county.csv", f)>> : f \in SeqsUpTo(rows, MaxRows)}

\* rows of one contest that differ in the spelling of the county
CountyRows ==
    { Row("2020", c, "Governor", NaN, t[1], t[2], t[3]) :
        c \in {"Hardin", "HARD", "Hardin County", "Breckenridge", "Allegany"},
        t \in {<<"Smith", "REP", "12,500">>, <<"Jones", "DEM", "10,000">>} }

\* rows of one contest whose county cell is Hardin in another letter case,
\* with or without the word County, extra blanks or a stray character
CaseCells ==
    {"HARDIN", "hardin", "hArDiN", "HARDIN COUNTY", "hardin county",
     "  Hardin   County ", "Hardin!"}

CaseRows == { Row("2020", c, "Governor", NaN, "Smith", "REP", "12,500") : c \in CaseCells }

\* a historical TXT file of input_dir
TxtFile(name, lines) == [name |-> name, lines |-> lines]

\* county header lines of a TXT file
TxtHeaders ==
    {"          *HARD    *GREU    *MCCK",
     "          *MCCR    *MCCK    *HARD",
     "          *GREU    *HARD    *GREE"}

\* candidate lines of a TXT file, one count per county of the header
TxtVoteLines ==
    {"FLETCHER    12,500    100    200",
     "BESHEAR    10,000    0    300",
     "JOHN Q PUBLIC    7    8    9",
     "TOTAL VOTES    22,507    108    509"}

\* no TXT file, or the 2007 file: an office line, a county header and at most
\* MaxRows candidate lines
TxtFilesOver(headers, votelines) ==
    {<<>>} \cup
    { <<TxtFile("2007statewidebyCOUNTY.txt",
                <<"OFFICE:  A01/000/000  GOVERNOR", h>> \o f)>> :
        h \in headers, f \in SeqsUpTo(votelines, MaxRows) }

\* rows that differ in party and votes, in one contest of two counties
VoteRows ==
    { Row("2020", "Jefferson", "Governor", NaN, t[1], t[2], v) :
        t \in {<<"Jones", "DEM">>, <<"Smith", "REP">>},
        v \in {"0", "10,000", "12,500", "-5"} }
    \cup { Row("2020", "Jefferson", "Governor", NaN, "Lee", "LIB", "10,000"),
           Row("2020", "Jefferson", "Governor", NaN, "Lee", "LIB", "-5"),
           Row("2020", "Hardin", "Governor", NaN, "Jones", "DEM", "100"),
           Row("2020", "Hardin", "Governor", NaN, "Smith", "REP", "10,000") }

\* vote sums <<dem, rep, other>> of one county: two-party splits of GridTotal
\* votes whose margin lies on, just below and just above every band
\* threshold, for either winner, sums whose margin ratio needs rounding, and
\* sums that a negative votes cell has lowered
GridTotal == 20000
PctPoints ==
    {0, 1, 49, 50, 51, 99, 100, 101, 549, 550, 551, 999, 1000, 1001,
     1999, 2000, 2001, 2999, 3000, 3001, 3999, 4000, 4001, 10000}
VoteSums ==
    { <<GridTotal \div 2 + p, GridTotal - (GridTotal \div 2 + p), 0>> : p \in PctPoints }
    \cup { <<GridTotal - (GridTotal \div 2 + p), GridTotal \div 2 + p, 0>> : p \in PctPoints }
    \cup { <<60000, 40000, 0>>, <<10000, 12500, 0>>, <<2, 1, 29>>, <<60, 40, 100>>,
           <<1, 2, 197>>, <<2, 0, 1>>, <<4, 1, 27>>, <<0, 0, 0>>, <<0, 0, 5>>,
           <<5, 5, 3>>, <<10000, -5, 0>>, <<-5, 0, 0>> }

\* the three rows of a county that add up to the vote sums t
SumRows(county, t) ==
    << Row("2020", county, "Governor", NaN, "Jones", "DEM", IntToStr(t[1])),
       Row("2020", county, "Governor", NaN, "Smith", "REP", IntToStr(t[2])),
       Row("2020", county, "Governor", NaN, "Lee", "LIB", IntToStr(t[3])) >>

MarginFiles ==
    { << CsvFile("20201103__ky__general__county.csv",
                 SumRows("Jefferson", a) \o SumRows("Hardin", b)) >> : a \in VoteSums, b \in VoteSums }

\* rows of one county result that differ in the party cell: the listed
\* codes in several spellings, other parties, a blank cell and a missing one
PartyCells ==
    {" dem ", "Democrat", "D", "Rep", "gop", "r", "REPUBLICAN",
     "Democratic", "  ", NaN}
PartyRows == { Row("2020", "Jefferson", "Governor", NaN, "Jones", p, "7") : p \in PartyCells }

\* rows of one county result that differ in candidate and votes within a
\* party, with a third-party row that outpolls them all
CandidateRows ==
    { Row("2020", "Jefferson", "Governor", NaN, t[1], t[2], t[3]) :
        t \in { <<"Smith", "DEM", "100">>, <<"Smith", "DEM", "150">>,
                <<"Jones", "DEM", "100">>, <<"Jones", "DEM", "150">>,
                <<"Brown", "REP", "100">>, <<"Green", "REP", "100">>,
                <<"Green", "REP", "150">>, <<"Adams", "DEM", "0">>,
                <<"Lee", "LIB", "200">> } }

\* rows of one county that differ in the spelling of the governor and
\* lieutenant governor offices
GovernorOffices ==
    {"Governor", "GOVERNOR", "Lieutenant Governor", "LIEUTENANT GOVERNOR",
     " lieutenant governor ", "Governor and Lieutenant Governor", "Lt. Governor",
     "Attorney General"}
GovernorRows ==
    { Row("2023", "Jefferson", o, NaN, "Jones", "DEM", "7") : o \in GovernorOffices }

\* rows of one county that differ in the office: statewide offices in the
\* spellings of the source files, legislative and local offices, and two
\* district-qualified rows
OfficeCells ==
    {"President and Vice President of the United States", "U.S. Senate",
     "United States Senator", "State Senate", "Governor", "GOVERNOR",
     "Attorney General", "County Attorney", "Secretary of State",
     "State Treasurer", "Treasurer", "State Auditor",
     "Commissioner of Agriculture", "State Representative"}
OfficeRows ==
    { Row("2022", "Jefferson", o, NaN, "Jones", "DEM", "7") : o \in OfficeCells }
    \cup { Row("2022", "Jefferson", "State Senate", "26", "Jones", "DEM", "7"),
           Row("2022", "Jefferson", "Governor", "26", "Jones", "DEM", "7") }

\* rows of one county result that differ in the candidate cell: a name, a
\* cell left empty (read as NaN), a cell of blanks and the placeholder labels
CandidateCells == {"Jones", NaN, "  ", "Over Votes", "Under Votes", "Total Votes"}
PlaceholderRows ==
    { Row("2020", "Jefferson", "Governor", NaN, c, p, "5000") :
        c \in CandidateCells, p \in {"DEM", NaN} }

\* rows of one county result that differ in the votes cell: integers with
\* and without thousands separators, a negative number, a decimal fraction,
\* text and a cell left empty
VotesCells == {"100", "12,500", "1,000", "0", "-5", "3.7", "abc", NaN}
CellRows ==
    { Row("2020", "Jefferson", "Governor", NaN, "Jones", "DEM", v) : v \in VotesCells }

\* rows with one defect each next to a clean row: a county outside the
\* table, no county, a legislative office, a votes cell of text, a placeholder
DirtyRows ==
    { Row("2020", "Jefferson", "Governor", NaN, "Jones", "DEM", "100"),
      Row("2020", "Allegany", "Governor", NaN, "Jones", "DEM", "100"),
      Row("2020", NaN, "Governor", NaN, "Jones", "DEM", "100"),
      Row("2020", "Jefferson", "State Representative", "26", "Jones", "DEM", "100"),
      Row("2020", "Jefferson", "Governor", NaN, "Jones", "DEM", "abc"),
      Row("2020", "Jefferson", "Governor", NaN, "Total Votes", NaN, "100") }

\* a CSV file that lacks the votes column
NoVotesColumnFile ==
    [name |-> "20191105__ky__general__county.csv",
     columns |-> {"county", "office", "district", "party", "candidate", "year"},
     rows |-> <<>>]

\* no CSV file, only a file without the votes column, or such a file or none
\* before one file of at most MaxRows rows
RunFiles ==
    {<<>>, <<NoVotesColumnFile>>}
    \cup { prefix \o <<CsvFile("20201103__ky__general__county.csv", f)>> :
              prefix \in {<<>>, <<NoVotesColumnFile>>}, f \in SeqsUpTo(DirtyRows, MaxRows) }

\* two CSV files of input_dir whose rows tie on the votes of the leading
\* Democrat and open contests of two offices, so that the order in which the
\* files are read shows in the output
RerunRows ==
    { Row("2019", "Jefferson", "Governor", NaN, "Smith", "DEM", "150"),
      Row("2019", "Jefferson", "Governor", NaN, "Jones", "DEM", "150"),
      Row("2019", "Jefferson", "Attorney General", NaN, "Brown", "REP", "100") }
RerunDirs ==
    { {CsvFile("20191105__ky__general__county.csv", f)} : f \in SeqsUpTo(RerunRows, MaxRows - 1) }
    \cup { {CsvFile("20191105__ky__general__county.csv", f),
            CsvFile("2019__ky__general__county.csv", g)} :
              f \in SeqsUpTo(RerunRows, MaxRows - 1), g \in SeqsUpTo(RerunRows, MaxRows - 1) }
RerunFiles == { collect_csv_files(d, seed) : d \in RerunDirs, seed \in HashSeeds }

Init == InitWith({LookupFile}, FilesOver(CountyRows))
Spec == Init /\ [][Next]_vars

InitVotes == InitWith({LookupFile}, FilesOver(VoteRows))
SpecVotes == InitVotes /\ [][Next]_vars

InitMargin == InitWith({LookupFile}, MarginFiles)
SpecMargin == InitMargin /\ [][Next]_vars

InitParty == InitWith({LookupFile}, FilesOver(PartyRows))
SpecParty == InitParty /\ [][Next]_vars

InitCandidates == InitWith({LookupFile}, FilesOver(CandidateRows))
SpecCandidates == InitCandidates /\ [][Next]_vars

InitGovernor == InitWith({LookupFile}, FilesOver(GovernorRows))
SpecGovernor == InitGovernor /\ [][Next]_vars

InitOffice == InitWith({LookupFile}, FilesOver(OfficeRows))
SpecOffice == InitOffice /\ [][Next]_vars

InitPlaceholder == InitWith({LookupFile}, FilesOver(PlaceholderRows))
SpecPlaceholder == InitPlaceholder /\ [][Next]_vars

InitCells == InitWith({LookupFile}, FilesOver(CellRows))
SpecCells == InitCells /\ [][Next]_vars

InitRun == InitWith({LookupFile} \cup BrokenLookupFiles, RunFiles)
SpecRun == InitRun /\ [][Next]_vars

InitCase == InitWith({LookupFile}, FilesOver(CaseRows))
SpecCase == InitCase /\ [][Next]_vars

TxtLookupFile == << [columns |-> required_cols, rows |-> county_name_lookup_txt] >>
InitTxt == InitWithTxt({TxtLookupFile}, {<<>>}, TxtFilesOver(TxtHeaders, TxtVoteLines))
SpecTxt == InitTxt /\ [][Next]_vars

\* county keys of a contest of the results JSON: canonical names and the
\* abbreviations and misspellings the build script lets through
RenameCounties ==
    {"HARD", "Hardin", "Breckenridge", "Breckinridge", "Bulter", "Butler",
     "Allegany", "Jefferson"}

\* the result of a county: its total votes, different for every key
RenameData(county) ==
    [county |-> county,
     total_votes |->
        CASE county = "HARD" -> 12500         [] county = "Hardin" -> 10000
          [] county = "Breckenridge" -> 700   [] county = "Breckinridge" -> 4100
          [] county = "Bulter" -> 35          [] county = "Butler" -> 2600
          [] county = "Allegany" -> 9         [] county = "Jefferson" -> 151000]

\* documents of one contest with at most MaxRows county entries
RenameDocs ==
    { [c \in {<<"2020", "Governor", "Governor">>} |->
          [n \in 1..Len(names) |-> [county |-> names[n], data |-> RenameData(names[n])]]] :
        names \in { f \in SeqsUpTo(RenameCounties, MaxRows) :
                      \A m, n \in 1..Len(f) : m # n => f[m] # f[n] } }

InitRename ==
    /\ MainIdle
    /\ election_json \in RenameDocs
    /\ rename_pc = "clean_county_names"
    /\ SenateIdle /\ county_csv_2022 = <<>> /\ ChunkIdle /\ PrecinctIdle
SpecRename == InitRename /\ [][NextRename]_vars

\* rows of the 2022 county file before the merge: an earlier U.S. Senate
\* row, a State Senator row, a U.S. Senate row of another year, and rows of
\* offices that do not contain "senator"
BaseRows ==
    { Row("2022", "Hardin", "United States Senator", "", "Rand PAUL", "REP", "100"),
      Row("2022", "Jefferson", "STATE SENATOR", "26", "Karen BERG", "DEM", "500"),
      Row("2020", "Hardin", "United States Senator", "", "Mitch McCONNELL", "REP", "9000"),
      Row("2022", "Hardin", "US Representative", "2", "Brett GUTHRIE", "REP", "7000"),
      Row("2022", "Hardin", "U.S. Senate", "", "Write-In", "W", "0") }

\* rows extracted from the certified PDF
SenateRows ==
    { Row("2022", "Hardin", "United States Senator", "", "Rand PAUL", "REP", "25000"),
      Row("2022", "Hardin", "United States Senator", "", "Charles BOOKER", "DEM", "12000"),
      Row("2022", "Jefferson", "United States Senator", "", "Charles BOOKER", "DEM", "150000") }

InitSenate ==
    /\ MainIdle
    /\ RenameIdle /\ ChunkIdle /\ PrecinctIdle
    /\ county_csv_2022 \in {<<>>} \cup {<<rows>> : rows \in SeqsUpTo(BaseRows, MaxRows)}
    /\ senate_df \in SeqsUpTo(SenateRows, 2) \ {<<>>}
    /\ senate_merges = 0
SpecSenate == InitSenate /\ [][NextSenate]_vars

\* ------------------------------------------- the recap PDFs considered
\* three county PDFs in list_pdfs order, each with no candidate line or
\* with the lines of two precincts
RecapStems == <<"Butler", "Hardin  County", "jefferson">>

RecapEntry(candidate, party, votes) ==
    [office |-> "US Senator", district |-> "", candidate |-> candidate,
     party |-> party, votes |-> votes]

RecapEntries ==
    { <<>>,
      << RecapEntry("Rand Paul", "REP", "100"), RecapEntry("Charles Booker", "DEM", "50"),
         RecapEntry("Rand Paul", "REP", "23") >> }

InitChunks ==
    /\ MainIdle
    /\ RenameIdle /\ SenateIdle /\ PrecinctIdle
    /\ county_csv_2022 = <<>>
    /\ COUNTY_LOOKUP = recap_load_county_lookup(county_name_lookup, EmptyDict)
    /\ chunk_dir = EmptyDict
    /\ recap_pdfs \in { [n \in 1..Len(RecapStems) |-> [stem |-> RecapStems[n], entries |-> f[n]]] :
                           f \in [1..Len(RecapStems) -> RecapEntries] }

SpecChunks == InitChunks /\ [][NextChunks]_vars

\* a precinct CSV file of the year directory
PrecinctFile(name, rows) ==
    [name |-> name,
     columns |-> {"county", "precinct", "office", "district", "party", "candidate", "votes"},
     rows |-> rows]

\* precinct rows of two counties: plain counts, a count with a thousands
\* separator, a negative correction and an empty cell
PrecinctRows ==
    { [county |-> t[1], office |-> "Governor", district |-> "", candidate |-> t[2],
       party |-> t[3], votes |-> t[4]] :
        t \in { <<"Hardin", "Smith", "REP", "100">>,
                <<"Hardin", "Smith", "REP", "1,234">>,
                <<"Hardin", "Jones", "DEM", "56">>,
                <<"Hardin", "Jones", "DEM", "">>,
                <<"Jefferson", "Smith", "REP", "-5">>,
                <<"Jefferson", "Smith", "REP", "7">> } }

\* the year directory: no precinct file, or one file of at most MaxRows rows,
\* alone or followed by a file of one row
PrecinctDirs ==
    {<<>>}
    \cup { <<PrecinctFile("20101102__ky__general__hardin__precinct.csv", f)>> :
             f \in SeqsUpTo(PrecinctRows, MaxRows) }
    \cup { <<PrecinctFile("20101102__ky__general__hardin__precinct.csv", f),
             PrecinctFile("20101102__ky__general__jefferson__precinct.csv",
                          <<CHOOSE r \in PrecinctRows : r.votes = "7">>)>> :
             f \in SeqsUpTo(PrecinctRows, MaxRows - 1) }

InitPrecinct ==
    /\ MainIdle
    /\ RenameIdle /\ SenateIdle /\ county_csv_2022 = <<>> /\ ChunkIdle
    /\ precinct_files \in PrecinctDirs
    /\ county_file = <<>>
SpecPrecinct == InitPrecinct /\ [][NextPrecinct]_vars

InitRerun == InitWith({LookupFile}, RerunFiles)
SpecRerun == InitRerun /\ [][NextRerun]_vars

\* ================================================================== claims
\* the rows of the input files, in reading order
InputRows == Flatten([n \in 1..Len(csv_files) |-> csv_files[n].rows])

\* the tree of the written document, empty until it is written
OutputTree == IF output = <<>> THEN EmptyDict ELSE output[1].results_by_year

\* the county results whose finalize iteration has run
FinalizedKeys ==
    IF pc = "finalize" THEN {NestedOrder(key_order)[n] : n \in 1..(pos - 1)}
    ELSE IF pc \in {"write", "done"} THEN DOMAIN results_by_year
    ELSE {}

\* the sum of Votes(row) over the rows of a sequence
SumOver(rows, Votes(_)) == SumSeq([n \in 1..Len(rows) |-> Votes(rows[n])])

\* C1: after a full run every county key of the written tree is a member of
\* the canonical county set of the reference table.
C1_ClosedCountySet ==
    \A key \in DOMAIN OutputTree :
        /\ key[4] \in CanonicalCounties
        /\ OutputTree[key].county \in CanonicalCounties

\* a raw county that no lookup strategy resolves: neither its normalized key
\* nor the key without a trailing COUNTY is a registered name or abbreviation
Unresolvable(raw) ==
    LET key == normalize_county_key(raw)
    IN /\ key # ""
       /\ {key, StripCountySuffix(key)}
            \cap (DOMAIN COUNTY_NORMALIZED_MAP \cup DOMAIN COUNTY_ABBR_MAP) = {}

\* C2: a record whose raw county matches no canonical county is dropped: the
\* written tree has no county entry under its raw or title-cased spelling,
\* and the votes of the tree are the votes of the resolvable records only.
C2_UnresolvableDropped ==
    output # <<>> =>
        /\ \A n \in 1..Len(InputRows) :
              Unresolvable(InputRows[n].county) =>
                 \A key \in DOMAIN OutputTree :
                    key[4] \notin {Strip(InputRows[n].county), Title(Strip(InputRows[n].county))}
        /\ SumOver(combined_df, LAMBDA row : IF RowAccepted(row) THEN row.votes ELSE 0)
             = SumOver(InputRows, LAMBDA raw : IF Unresolvable(raw.county) THEN 0
                                                ELSE CoerceVotes(raw.votes))

\* the county a raw spelling stands for when every registered key counts: a
\* 4-letter abbreviation of the abbreviation table, else what the lookup gives
IntendedCounty(raw) ==
    LET key == normalize_county_key(raw)
    IN IF key \in DOMAIN COUNTY_ABBR_MAP THEN COUNTY_ABBR_MAP[key]
       ELSE canonicalize_county_name(raw)

\* the cleaned row of a raw row, filed under its intended county
IntendedRow(raw) ==
    [CleanRow(ParseCsvRow(raw)) EXCEPT !.county = IntendedCounty(raw.county)]

\* C3: records of one year, office and district whose raw county is the
\* 4-letter abbreviation of a county and records that carry its full name
\* accumulate into one result keyed by the canonical name; every registered
\* key of a county (name, "X County", alternate spelling, abbreviation)
\* canonicalizes to that county.
C3_AbbreviationMerged ==
    output # <<>> =>
       /\ \A n \in 1..Len(InputRows) :
             IntendedCounty(InputRows[n].county) \in CanonicalCounties
                => canonicalize_county_name(InputRows[n].county)
                      = IntendedCounty(InputRows[n].county)
       /\ \A n \in 1..Len(InputRows) :
             LET row == IntendedRow(InputRows[n])
             IN (row.county \in CanonicalCounties /\ RowAccepted(row)) =>
                   /\ RowKey(row) \in DOMAIN OutputTree
                   /\ OutputTree[RowKey(row)].total_votes =
                         SumOver(InputRows,
                                 LAMBDA raw : IF RowKey(IntendedRow(raw)) = RowKey(row)
                                              THEN CoerceVotes(raw.votes) ELSE 0)

\* the rows of combined_df the aggregation loop has gone through
ProcessedRows ==
    IF pc = "aggregate" THEN SubSeq(combined_df, 1, pos - 1)
    ELSE IF pc \in {"finalize", "write", "done"} THEN combined_df
    ELSE <<>>

\* C4: every county result has total_votes = dem_votes + rep_votes +
\* other_votes, and total_votes is the sum of the votes of exactly the rows
\* that contributed to its year, office, contest and county.
C4_VoteConservation ==
    /\ \A n \in 1..Len(ProcessedRows) :
          RowAccepted(ProcessedRows[n]) => RowKey(ProcessedRows[n]) \in DOMAIN results_by_year
    /\ \A key \in DOMAIN results_by_year :
          LET r == results_by_year[key]
          IN /\ r.total_votes = r.dem_votes + r.rep_votes + r.other_votes
             /\ r.total_votes =
                   SumOver(ProcessedRows,
                           LAMBDA row : IF RowAccepted(row) /\ RowKey(row) = key
                                        THEN row.votes ELSE 0)

\* two county results after the loop, one of them fed by rows of two buckets
C4_Witness ==
    /\ pc = "done"
    /\ Cardinality(DOMAIN results_by_year) = 2
    /\ \E key \in DOMAIN results_by_year :
          /\ results_by_year[key].dem_votes > 0
          /\ results_by_year[key].other_votes > 0
          /\ results_by_year[key].total_votes
                = results_by_year[key].dem_votes + results_by_year[key].other_votes

\* C5: every finalized result has margin = dem_votes - rep_votes, and its
\* winner is DEM iff margin > 0, REP iff margin < 0, TIE iff margin = 0.
C5_MarginSign ==
    \A key \in FinalizedKeys :
       LET r == results_by_year[key]
       IN /\ r.margin = r.dem_votes - r.rep_votes
          /\ r.winner = "DEM" <=> r.margin > 0
          /\ r.winner = "REP" <=> r.margin < 0
          /\ r.winner = "TIE" <=> r.margin = 0

\* a finalized result with an even split of votes cast, next to a decided one
C5_Witness ==
    \E k1, k2 \in FinalizedKeys :
       /\ results_by_year[k1].winner = "TIE"
       /\ results_by_year[k1].dem_votes > 0
       /\ results_by_year[k2].winner = "REP"

\* C6: every finalized result has two_party_total = dem_votes + rep_votes and
\* margin_pct = |dem_votes - rep_votes| / total_votes x 100 rounded to two
\* decimals (the nearest hundredth, over total_votes, other votes included)
\* when total_votes > 0, and 0 when total_votes = 0.
C6_MarginPct ==
    \A key \in FinalizedKeys :
       LET r == results_by_year[key]
           m == Abs(r.dem_votes - r.rep_votes)
       IN /\ r.two_party_total = r.dem_votes + r.rep_votes
          /\ r.total_votes = 0 => r.margin_pct = 0
          /\ r.total_votes > 0 =>
                2 * Abs(r.margin_pct * r.total_votes - 10000 * m) <= r.total_votes
          /\ (r.rep_votes = 12500 /\ r.dem_votes = 10000 /\ r.other_votes = 0)
                => r.margin_pct = 1111
          /\ (r.dem_votes = 60000 /\ r.rep_votes = 40000 /\ r.other_votes = 0)
                => r.margin_pct = 2000

\* a finalized result whose other votes halve the percentage (60, 40 and 100
\* other give 10.00, not 20.00), next to one that is rounded up (2 of 3
\* votes give 66.67)
C6_Witness ==
    \E k1, k2 \in FinalizedKeys :
       /\ results_by_year[k1].dem_votes = 60
       /\ results_by_year[k1].other_votes = 100
       /\ results_by_year[k1].margin_pct = 1000
       /\ results_by_year[k2].dem_votes = 2
       /\ results_by_year[k2].other_votes = 1
       /\ results_by_year[k2].margin_pct = 6667

\* C7: the category of every non-tied finalized result is the band of its
\* rounded margin_pct: >= 40 Annihilation, >= 30 Dominant, >= 20 Stronghold,
\* >= 10 Safe, >= 5.50 Likely, >= 1.00 Lean, >= 0.50 Tilt, else Tossup; a
\* value on a threshold is in the higher band.
C7_Bands ==
    \A key \in FinalizedKeys :
       LET r == results_by_year[key]
           p == r.margin_pct
           c == r.competitiveness.category
       IN r.winner \in {"DEM", "REP"} =>
             /\ c = "Annihilation" <=> p >= 4000
             /\ c = "Dominant" <=> (3000 <= p /\ p < 4000)
             /\ c = "Stronghold" <=> (2000 <= p /\ p < 3000)
             /\ c = "Safe" <=> (1000 <= p /\ p < 2000)
             /\ c = "Likely" <=> (550 <= p /\ p < 1000)
             /\ c = "Lean" <=> (100 <= p /\ p < 550)
             /\ c = "Tilt" <=> (50 <= p /\ p < 100)
             /\ c = "Tossup" <=> p < 50

\* finalized results exactly on the thresholds 20.00 and 10.00
C7_Witness ==
    \E k1, k2 \in FinalizedKeys :
       /\ results_by_year[k1].margin_pct = 2000
       /\ results_by_year[k1].competitiveness.category = "Stronghold"
       /\ results_by_year[k2].margin_pct = 1000
       /\ results_by_year[k2].competitiveness.category = "Safe"

\* the place of a category in Tossup < Tilt < ... < Annihilation
BandRank(category) ==
    CASE category = "Tossup" -> 0
      [] category = "Tilt" -> 1
      [] category = "Lean" -> 2
      [] category = "Likely" -> 3
      [] category = "Safe" -> 4
      [] category = "Stronghold" -> 5
      [] category = "Dominant" -> 6
      [] category = "Annihilation" -> 7

\* C8: for two finalized results of the same winner party, the one with the
\* larger margin_pct never has the lower band.
C8_Monotone ==
    \A k1, k2 \in FinalizedKeys :
       LET r1 == results_by_year[k1]
           r2 == results_by_year[k2]
       IN (r1.winner \in {"DEM", "REP"} /\ r1.winner = r2.winner
           /\ r1.margin_pct <= r2.margin_pct)
          => BandRank(r1.competitiveness.category) <= BandRank(r2.competitiveness.category)

\* two finalized results of one winner in different bands
C8_Witness ==
    \E k1, k2 \in FinalizedKeys :
       /\ results_by_year[k1].winner = "REP"
       /\ results_by_year[k2].winner = "REP"
       /\ results_by_year[k1].margin_pct < results_by_year[k2].margin_pct
       /\ results_by_year[k1].competitiveness.category = "Likely"
       /\ results_by_year[k2].competitiveness.category = "Safe"

\* C9: a finalized result won by DEM or REP has competitiveness party =
\* winner, code = winner, "_", category in upper case, and the color of that
\* category for that party; a result with dem_votes = rep_votes has exactly
\* Tossup, TIE, TIE_TOSSUP and the neutral color.
C9_CompetitivenessRecord ==
    \A key \in FinalizedKeys :
       LET r == results_by_year[key]
           c == r.competitiveness
       IN /\ r.dem_votes # r.rep_votes =>
                /\ r.winner \in {"DEM", "REP"}
                /\ c.party = r.winner
                /\ c.code = r.winner \o "_" \o StrUpper(c.category)
                /\ c.color = CategoryColors[c.category][r.winner]
          /\ r.dem_votes = r.rep_votes =>
                c = [category |-> "Tossup", party |-> "TIE",
                     code |-> "TIE_TOSSUP", color |-> "#f7f7f7"]

\* a finalized even split with other votes, next to a decided result
C9_Witness ==
    \E k1, k2 \in FinalizedKeys :
       /\ results_by_year[k1].dem_votes = results_by_year[k1].rep_votes
       /\ results_by_year[k1].other_votes > 0
       /\ results_by_year[k1].competitiveness.code = "TIE_TOSSUP"
       /\ results_by_year[k2].competitiveness.code = "DEM_STRONGHOLD"

\* C10: in every finalized result all_parties has the key DEM iff dem_votes
\* is non-zero, REP iff rep_votes is non-zero, OTHER iff other_votes is
\* non-zero, each with the bucket's vote sum.
C10_AllPartiesNonZero ==
    \A key \in FinalizedKeys :
       LET r == results_by_year[key]
           a == r.all_parties
       IN /\ "DEM" \in DOMAIN a <=> r.dem_votes # 0
          /\ "REP" \in DOMAIN a <=> r.rep_votes # 0
          /\ "OTHER" \in DOMAIN a <=> r.other_votes # 0
          /\ "DEM" \in DOMAIN a => a["DEM"] = r.dem_votes
          /\ "REP" \in DOMAIN a => a["REP"] = r.rep_votes
          /\ "OTHER" \in DOMAIN a => a["OTHER"] = r.other_votes

\* the bucket the contract gives a raw party value
ContractBucket(raw_party) ==
    IF raw_party = NaN THEN "other"
    ELSE IF StrUpper(Strip(raw_party)) \in {"DEM", "DEMOCRAT", "D"} THEN "dem"
    ELSE IF StrUpper(Strip(raw_party)) \in {"REP", "REPUBLICAN", "R", "GOP"} THEN "rep"
    ELSE "other"

\* the votes the raw rows of one result carry in one contract bucket
BucketSum(key, bucket) ==
    SumOver(InputRows,
            LAMBDA raw : IF RowKey(CleanRow(raw)) = key /\ ContractBucket(raw.party) = bucket
                         THEN CoerceVotes(raw.votes) ELSE 0)

\* C11: the votes of every record with a real candidate are credited to dem
\* iff its trimmed, upper-cased raw party is DEM, DEMOCRAT or D, to rep iff it
\* is REP, REPUBLICAN, R or GOP, and to other in every remaining case, a blank
\* or missing party included; no such record is dropped for its party.
C11_PartyBuckets ==
    output # <<>> =>
       \A n \in 1..Len(InputRows) :
          LET key == RowKey(CleanRow(InputRows[n]))
          IN /\ key \in DOMAIN OutputTree
             /\ OutputTree[key].dem_votes = BucketSum(key, "dem")
             /\ OutputTree[key].rep_votes = BucketSum(key, "rep")
             /\ OutputTree[key].other_votes = BucketSum(key, "other")

\* a written result fed by a padded lower-case dem code, a GOP row and a row
\* whose party cell is missing
C11_Witness ==
    /\ output # <<>>
    /\ \E i, j, k \in 1..Len(InputRows) :
          /\ InputRows[i].party = " dem "
          /\ InputRows[j].party = "gop"
          /\ InputRows[k].party = NaN
    /\ \E key \in DOMAIN OutputTree :
          /\ OutputTree[key].dem_votes = 7
          /\ OutputTree[key].rep_votes = 7
          /\ OutputTree[key].other_votes = 7

\* the positions in ProcessedRows of the records ingested for one result in
\* one bucket
BucketRows(key, bucket) ==
    { n \in 1..Len(ProcessedRows) :
        /\ RowAccepted(ProcessedRows[n])
        /\ RowKey(ProcessedRows[n]) = key
        /\ ContractBucket(ProcessedRows[n].party) = bucket }

\* the first-ingested record of the set ns with the most votes
FirstMax(ns) ==
    CHOOSE n \in ns :
       /\ \A m \in ns : ProcessedRows[m].votes <= ProcessedRows[n].votes
       /\ \A m \in ns : ProcessedRows[m].votes = ProcessedRows[n].votes => n <= m

\* the name a bucket's records leave: that of the first record with the
\* maximum votes when the maximum is positive
LeadCandidate(ns, current) ==
    IF ns = {} THEN ""
    ELSE IF ProcessedRows[FirstMax(ns)].votes > 0
         THEN RowCandidate(ProcessedRows[FirstMax(ns)])
    ELSE current

\* C12: after any sequence of records ingested for one result, dem_votes is
\* the sum of the votes of its dem records and dem_candidate is the candidate
\* of the first-ingested dem record among those with the maximum single-record
\* votes (when positive): an equal later record never replaces the name, a
\* strictly larger one always does; the same for rep; records of the other
\* bucket change neither name.
C12_FirstSeenMax ==
    \A key \in DOMAIN results_by_year :
       LET r == results_by_year[key]
       IN /\ r.dem_votes = SumSeq([n \in 1..Len(ProcessedRows) |->
                              IF n \in BucketRows(key, "dem") THEN ProcessedRows[n].votes ELSE 0])
          /\ r.rep_votes = SumSeq([n \in 1..Len(ProcessedRows) |->
                              IF n \in BucketRows(key, "rep") THEN ProcessedRows[n].votes ELSE 0])
          /\ r.dem_candidate = LeadCandidate(BucketRows(key, "dem"), r.dem_candidate)
          /\ r.rep_candidate = LeadCandidate(BucketRows(key, "rep"), r.rep_candidate)

\* Smith 100, Jones 150, Smith 150 ingested in that order: Jones took the
\* name with strictly more votes and kept it against the equal later record
C12_Witness ==
    /\ Len(ProcessedRows) = 3
    /\ RowCandidate(ProcessedRows[1]) = "Smith" /\ ProcessedRows[1].votes = 100
    /\ RowCandidate(ProcessedRows[2]) = "Jones" /\ ProcessedRows[2].votes = 150
    /\ RowCandidate(ProcessedRows[3]) = "Smith" /\ ProcessedRows[3].votes = 150
    /\ \A n \in 1..3 : ProcessedRows[n].party = "dem"
    /\ \E key \in DOMAIN results_by_year :
          /\ results_by_year[key].dem_candidate = "Jones"
          /\ results_by_year[key].dem_votes = 400

\* the office cell of a raw row in lower case
OfficeLower(raw) == StrLower(Str(raw.office))

OfficeCategories ==
    {"President", "U.S. Senate", "Governor", "Lieutenant Governor", "Attorney General",
     "Secretary of State", "State Treasurer", "Auditor of Public Accounts",
     "Commissioner of Agriculture"}

\* the category the ordered substring rules give an office: president,
\* senate or senator, governor (lieutenant first), attorney general, secretary
\* of state, treasurer, auditor, agriculture or commissioner; first match wins
RuleCategory(office) ==
    LET o == StrLower(office)
    IN IF Contains(o, "president") THEN "President"
       ELSE IF Contains(o, "senate") \/ Contains(o, "senator") THEN "U.S. Senate"
       ELSE IF Contains(o, "governor")
            THEN (IF Contains(o, "lieutenant") THEN "Lieutenant Governor" ELSE "Governor")
       ELSE IF Contains(o, "attorney general") THEN "Attorney General"
       ELSE IF Contains(o, "secretary of state") THEN "Secretary of State"
       ELSE IF Contains(o, "treasurer") THEN "State Treasurer"
       ELSE IF Contains(o, "auditor") THEN "Auditor of Public Accounts"
       ELSE IF Contains(o, "agriculture") \/ Contains(o, "commissioner")
            THEN "Commissioner of Agriculture"
       ELSE "NonStatewide"

\* C14: classification is a case-insensitive first match over the ordered
\* rules: every office that contains "senate" or "senator" (such as "United
\* States Senator") is classified U.S. Senate, and the earliest matching rule
\* decides.  Stated on the classifier and on the contest_name of every result
\* a record creates.
C14_OrderedRules ==
    output # <<>> =>
       \A n \in 1..Len(InputRows) :
          LET raw == InputRows[n]
              key == RowKey(CleanRow(raw))
          IN RuleCategory(Str(raw.office)) # "NonStatewide" =>
                /\ get_contest_name(Str(raw.office)) = RuleCategory(Str(raw.office))
                /\ key \in DOMAIN OutputTree =>
                      OutputTree[key].contest_name = RuleCategory(Str(raw.office))

\* C15: a record contributes to the output iff the classifier gives its
\* office one of the fixed statewide categories (the inclusion filter and the
\* classifier agree on every office), and every contest_name of the output
\* is one of the fixed categories.
C15_FilterAgreesWithClassifier ==
    output # <<>> =>
       /\ \A n \in 1..Len(InputRows) :
             LET raw == InputRows[n]
             IN /\ is_statewide_office(Str(raw.office))
                      <=> get_contest_name(Str(raw.office)) \in OfficeCategories
                /\ RowKey(CleanRow(raw)) \in DOMAIN OutputTree
                      <=> get_contest_name(Str(raw.office)) \in OfficeCategories
       /\ \A key \in DOMAIN OutputTree : OutputTree[key].contest_name \in OfficeCategories

\* the grouping key of the contract: year, office category, district and
\* canonical county
GroupKey(raw) ==
    << CleanRow(raw).year, get_contest_name(RowOffice(CleanRow(raw))),
       RowDistrict(CleanRow(raw)), RowCounty(CleanRow(raw)) >>

\* C16: records are grouped by year, office category, contest label and
\* canonical county: the result a record is filed under holds the votes of
\* every accepted record with the same year, district and county whose office
\* classifies to the same category, and of no other record.
C16_GroupedByCategory ==
    output # <<>> =>
       \A n \in 1..Len(InputRows) :
          LET raw == InputRows[n]
              key == RowKey(CleanRow(raw))
          IN key \in DOMAIN OutputTree =>
                OutputTree[key].total_votes =
                   SumOver(InputRows,
                           LAMBDA other : IF RowAccepted(CleanRow(ParseCsvRow(other)))
                                             /\ GroupKey(other) = GroupKey(raw)
                                          THEN CoerceVotes(other.votes) ELSE 0)

\* a candidate cell that is blank or missing or a placeholder label
NotACandidate(cell) ==
    \/ cell = NaN
    \/ Strip(cell) \in {"", "Over Votes", "Under Votes", "Total Votes"}

\* C17: a record whose candidate is blank or missing or is one of "Over
\* Votes", "Under Votes", "Total Votes" is dropped before aggregation whatever
\* its party, office, county and votes: it adds nothing to any vote sum and
\* creates no node of the tree.
C17_PlaceholdersDropped ==
    output # <<>> =>
       /\ \A key \in DOMAIN OutputTree :
             /\ \E n \in 1..Len(InputRows) :
                   /\ ~NotACandidate(InputRows[n].candidate)
                   /\ RowKey(CleanRow(InputRows[n])) = key
             /\ OutputTree[key].total_votes =
                   SumOver(InputRows,
                           LAMBDA raw : IF ~NotACandidate(raw.candidate)
                                           /\ RowKey(CleanRow(raw)) = key
                                        THEN CoerceVotes(raw.votes) ELSE 0)
       /\ (\A n \in 1..Len(InputRows) : NotACandidate(InputRows[n].candidate))
             => OutputTree = EmptyDict

\* the cleaning of the contract: thousands separators stripped, the rest
\* parsed as an integer, 0 when that fails
ContractVotes(cell) ==
    IF IsDigits(RemoveChar(Str(cell), ",")) THEN ParseDigits(RemoveChar(Str(cell), ",")) ELSE 0

\* C18: cleaning turns every raw votes cell into a non-negative integer:
\* thousands separators are stripped ("12,500" becomes 12500) and a cell that
\* does not parse as an integer becomes 0, the record and the batch being
\* kept; no negative or fractional value reaches the vote sums.
C18_VotesNonNegative ==
    /\ pc \in {"aggregate", "finalize", "write", "done"} =>
          /\ Len(combined_df) = Len(InputRows)
          /\ \A n \in 1..Len(combined_df) :
                /\ combined_df[n].votes >= 0
                /\ combined_df[n].votes = ContractVotes(InputRows[n].votes)
    /\ \A key \in DOMAIN results_by_year :
          /\ results_by_year[key].dem_votes >= 0
          /\ results_by_year[key].rep_votes >= 0
          /\ results_by_year[key].other_votes >= 0
          /\ results_by_year[key].total_votes >= 0

\* the raw rows of the files that have every required column
IngestedRows ==
    Flatten([n \in 1..Len(csv_files) |->
                IF required \ HeaderColumns(csv_files[n]) = {} THEN csv_files[n].rows ELSE <<>>])

\* the raw rows that survive ingestion and filtering
SurvivingRows ==
    SelectSeq(IngestedRows,
              LAMBDA raw : KeepRow(ParseCsvRow(raw)) /\ RowAccepted(CleanRow(ParseCsvRow(raw))))

\* C19: a run aborts iff the county reference table fails to load or no
\* record survives ingestion and filtering; with any mix of unresolvable
\* counties, non-statewide offices, malformed votes cells and placeholder rows
\* the run completes and writes the output.  Stated on how a run ends.
C19_AbortIff ==
    /\ pc = "aborted" => (~LookupLoads(county_lookup_file) \/ SurvivingRows = <<>>)
    /\ pc = "done" => (LookupLoads(county_lookup_file) /\ SurvivingRows # <<>>)
    /\ pc = "done" => output # <<>>

\* C20: running the pipeline twice on the same files, rows and reference
\* table yields the same JSON document, key order included: nothing in a
\* result depends on randomness, time or state of the earlier run.
C20_SameOutputTwice ==
    (pc = "done" /\ previous_output # <<>>) => output = previous_output

\* a second run has written its document, read from two files whose rows tie
\* on the leading Democrat and create two contests
C20_Witness ==
    /\ pc = "done"
    /\ previous_output # <<>>
    /\ Len(csv_files) = 2
    /\ csv_files[1].rows # <<>>
    /\ csv_files[2].rows # <<>>
    /\ Len(output[1].key_order) = 2
    /\ \E key \in DOMAIN OutputTree : OutputTree[key].dem_votes = 300

\* C21: the year, office, contest and county keys of the serialized output
\* are in sorted order at every level, so that the order in which the records
\* were presented does not show in the key order.
C21_SortedKeys ==
    output # <<>> =>
       \A i, j \in 1..Len(output[1].key_order) :
          i < j => PathBefore(output[1].key_order[i], output[1].key_order[j])

\* a result is finalized once the finalize loop has set its winner: the
\* aggregation loop creates it with winner ""
Finalized(r) == r.winner # ""

\* C22: finalization happens once per county result and only after every
\* record has been ingested: a finalized result exists only after the
\* aggregation loop has ended, no step changes a finalized result, and every
\* result of the written document is finalized.
C22_FinalizeOnce ==
    /\ [](\A key \in DOMAIN results_by_year :
             Finalized(results_by_year[key]) => pc \in {"finalize", "write", "done"})
    /\ [](output # <<>> =>
             \A key \in DOMAIN output[1].results_by_year :
                Finalized(output[1].results_by_year[key]))
    /\ [][\A key \in DOMAIN results_by_year :
             Finalized(results_by_year[key]) =>
                /\ key \in DOMAIN results_by_year'
                /\ results_by_year'[key] = results_by_year[key]]_vars

\* the finalize loop is under way on a document of two results with votes:
\* one is finalized, the other is not yet
C22_Witness ==
    /\ pc = "finalize"
    /\ \E k1, k2 \in DOMAIN results_by_year :
          /\ Finalized(results_by_year[k1])
          /\ ~Finalized(results_by_year[k2])
          /\ results_by_year[k1].total_votes > 0
          /\ results_by_year[k2].total_votes > 0

\* county cells put to the canonicalizer before and after every step
CountyProbes ==
    {"hardin", "hardin!", "HARDIN COUNTY", "Hardin  County"}

\* C23: canonicalize_county_name returns the same result for the same input
\* whatever calls were made before: no step of the run changes the two lookup
\* tables bound at startup, and the result for a county cell is the same
\* after a step as before it.
C23_CanonicalizeDeterministic ==
    [][/\ COUNTY_NORMALIZED_MAP' = COUNTY_NORMALIZED_MAP
       /\ COUNTY_ABBR_MAP' = COUNTY_ABBR_MAP
       /\ \A x \in CountyProbes :
             canonicalize_with(COUNTY_NORMALIZED_MAP', x)
                = canonicalize_with(COUNTY_NORMALIZED_MAP, x)]_vars

\* the county column has been canonicalized: one cell was resolved through
\* the table and one fell through to the raw text
C23_Witness ==
    /\ pc = "aggregate"
    /\ \E m, n \in 1..Len(combined_df) :
          /\ combined_df[m].county \in CanonicalCounties
          /\ combined_df[n].county \notin CanonicalCounties
    /\ \E n \in 1..Len(InputRows) :
          /\ InputRows[n].county \notin CanonicalCounties
          /\ canonicalize_county_name(InputRows[n].county) \in CanonicalCounties

\* the canonical county a county cell names when letter case, a trailing
\* word County, blanks and stray characters do not count; "" when none
CaseFoldedCounty(raw) ==
    LET key == StrUpper(normalize_county_key(raw))
        name == StripCountySuffix(key)
        named == {c \in CanonicalCounties : StrUpper(c) = name}
    IN IF named = {} THEN "" ELSE CHOOSE c \in named : TRUE

\* C24: canonicalization is insensitive to letter case and to a trailing
\* COUNTY token: every case variant of a canonical county C and of
\* "C County", with surrounding or repeated blanks and stray punctuation,
\* is filed under C in the cleaned table.
C24_CaseInsensitive ==
    pc = "aggregate" =>
       /\ Len(combined_df) = Len(InputRows)
       /\ \A n \in 1..Len(InputRows) :
             CaseFoldedCounty(InputRows[n].county) # ""
                => combined_df[n].county = CaseFoldedCounty(InputRows[n].county)

\* the names of the ingested records of one result and bucket that carry
\* more than 0 votes
PositiveNames(key, bucket) ==
    { RowCandidate(combined_df[n]) :
        n \in { m \in 1..Len(combined_df) :
                  /\ RowAccepted(combined_df[m])
                  /\ RowKey(combined_df[m]) = key
                  /\ party_bucket(RowParty(combined_df[m])) = bucket
                  /\ combined_df[m].votes > 0 } }

\* C28: in the written document dem_candidate of a result is non-empty iff
\* a dem record with votes > 0 was ingested for it, and then it is the name
\* of one of those records; the same for rep_candidate; a bucket whose
\* records all carry 0 votes leaves the name empty; the running maxima
\* _dem_max and _rep_max are not keys of any written result.
C28_CandidateIffPositive ==
    \A key \in DOMAIN OutputTree :
       LET r == OutputTree[key]
       IN /\ (r.dem_candidate # "") = (PositiveNames(key, "dem") # {})
          /\ r.dem_candidate # "" => r.dem_candidate \in PositiveNames(key, "dem")
          /\ (r.rep_candidate # "") = (PositiveNames(key, "rep") # {})
          /\ r.rep_candidate # "" => r.rep_candidate \in PositiveNames(key, "rep")
          /\ r.dem_max = <<>>
          /\ r.rep_max = <<>>

\* a written result that got a dem record of 0 votes only and a rep record
\* with votes: the dem name is empty, the rep name is set
C28_Witness ==
    \E key \in DOMAIN OutputTree :
       /\ OutputTree[key].dem_candidate = ""
       /\ OutputTree[key].rep_candidate = "Smith"
       /\ \E n \in 1..Len(combined_df) :
             /\ RowKey(combined_df[n]) = key
             /\ RowAccepted(combined_df[n])
             /\ party_bucket(RowParty(combined_df[n])) = "dem"
             /\ combined_df[n].votes = 0

\* the spelling the override table gives a county name, letter case apart
OverrideSpelling(county) ==
    LET ks == {k \in DOMAIN AbbrQuirks : StrUpper(AbbrQuirks[k]) = StrUpper(county)}
    IN IF ks = {} THEN county ELSE AbbrQuirks[CHOOSE k \in ks : TRUE]

\* C25: an abbreviation of the override table (GREU, KENT, MASO, MCCK, MCCR,
\* MCLE) resolves to the county the table gives, and every row parsed under
\* a TXT county header that carries such an abbreviation is in the written
\* document under exactly that county name.
C25_OverrideAbbreviations ==
    output # <<>> =>
       /\ \A k \in DOMAIN AbbrQuirks : COUNTY_ABBR_MAP[k] = AbbrQuirks[k]
       /\ \A n \in 1..Len(combined_df) :
             LET row == combined_df[n]
             IN RowAccepted(row) =>
                  [RowKey(row) EXCEPT ![4] = OverrideSpelling(RowCounty(row))]
                     \in DOMAIN OutputTree

\* the county a key of the results JSON stands for once both rename scripts
\* have been applied to it
RenamedTo(county) ==
    LET mapped == IF county \in DOMAIN COUNTY_MAPPING THEN COUNTY_MAPPING[county]
                  ELSE county
    IN IF mapped = "Breckenridge" THEN "Breckinridge" ELSE mapped

\* the votes a contest holds for a canonical county, under any of its keys
CountyVotes(results, county) ==
    SumSeq([n \in 1..Len(results) |->
              IF RenamedTo(results[n].county) = county
              THEN results[n].data.total_votes ELSE 0])

\* C30: renaming the mis-named county keys of the results JSON never
\* discards a canonical county's result: in every contest the votes held for
\* a canonical county, under its canonical name or a bad one, are the same
\* after each rename script as before it.
C30_RenameKeepsVotes ==
    [][\A contest \in DOMAIN election_json :
          \A county \in CanonicalCounties :
             CountyVotes(election_json'[contest], county)
                = CountyVotes(election_json[contest], county)]_vars

\* the rows of a county file, none when the file does not exist
FileRows(file) == IF file = <<>> THEN <<>> ELSE file[1]

PrecinctInput ==
    Flatten([n \in 1..Len(UsableFrames(precinct_files)) |-> UsableFrames(precinct_files)[n].rows])

\* the county file, put back as the only precinct file of the directory
AsPrecinctFile(rows) ==
    << [name |-> "KY_2010_GENERAL_COUNTY.csv",
        columns |-> {"year", "county", "office", "district", "candidate", "party", "votes"},
        rows |-> rows] >>

\* C26: the county file of a precinct-to-county aggregation has exactly one
\* row per distinct (year, county, office, district, candidate, party) of the
\* precinct rows, its votes the sum of the cleaned votes of the precinct rows
\* of that key: no key twice, the total of the file is the total of the
\* cleaned input, and aggregating the county file again returns its rows.
C26_OneRowPerKey ==
    county_file # <<>> =>
       LET out == county_file[1]
       IN /\ \A m, n \in 1..Len(out) : PrecinctKey(out[m]) = PrecinctKey(out[n]) => m = n
          /\ {PrecinctKey(out[n]) : n \in 1..Len(out)}
                = {PrecinctKey(PrecinctInput[n]) : n \in 1..Len(PrecinctInput)}
          /\ \A n \in 1..Len(out) :
                /\ out[n].year = "2010"
                /\ RemoveChar(out[n].votes, ",") =
                     CleanedTotal(SelectSeq(PrecinctInput,
                                            LAMBDA row : PrecinctKey(row) = PrecinctKey(out[n])))
          /\ CleanedTotal(out) = CleanedTotal(PrecinctInput)
          /\ aggregate_year("2010", AsPrecinctFile(out))
                = << [n \in 1..Len(out) |->
                        [out[n] EXCEPT !.votes = CleanedTotal(<<out[n]>>)]] >>

\* C29: when the chunk files cover every recap PDF that has rows, the file
\* merge_chunks writes holds, for every (year, county, office, district,
\* candidate, party) key, the sum of the votes over all PDFs, each PDF
\* counted once, whatever ranges were processed before; and processing a
\* chunk again with its start and count writes the same chunk file.
AllRecapRows ==
    GroupRows("2022",
              CanonicalCountyRows(Flatten([n \in 1..Len(recap_pdfs) |->
                                              parse_sos_precinct_recap_pdf(recap_pdfs[n])])),
              NumericTotal)
ChunksCoverAll ==
    \A n \in 1..Len(recap_pdfs) :
       recap_pdfs[n].entries # <<>> =>
          \E name \in DOMAIN chunk_dir : chunk_dir[name].start < n /\ n <= chunk_dir[name].end
C29_EachPdfOnce ==
    /\ [][(chunk_dir' = chunk_dir /\ county_csv_2022' # county_csv_2022 /\ ChunksCoverAll)
             => FileRows(county_csv_2022') = AllRecapRows]_vars
    /\ [](\A name \in DOMAIN chunk_dir :
             process_chunk(recap_pdfs, chunk_dir[name].start,
                           chunk_dir[name].end - chunk_dir[name].start) = <<chunk_dir[name]>>)

====
